---- MODULE Spec2Model ----
(***************************************************************************)
(* Model of the in-memory file store of Gabrie1HK/AYE2: the entity model   *)
(* (entidades_fs.py), the stacks (estructuras_datos.py), the global B-tree *)
(* index (indice_global.py), the snapshot codec (respaldos.py) and the     *)
(* command layer (comandos.py).                                            *)
(*                                                                         *)
(* Strings are sequences of one-character strings, compared as Python      *)
(* compares str values: lexicographically by code point.                   *)
(***************************************************************************)
EXTENDS Integers, Sequences, FiniteSets, TLC

VARIABLES
    grado,                  \* IndiceGlobalArchivos.grado_minimo / BTree.grado
    log_operaciones,        \* config.datos["log_operaciones"]
    indice_global,          \* sistema.indice_global.arbol.raiz (a BTreeNode)
    carpetas,               \* the heap of Carpeta objects: id -> Carpeta
    unidades,               \* sistema.unidades: the chain of UnidadAlmacenamiento
    unidad_actual,          \* sistema.unidad_actual (position in unidades)
    directorio_actual,      \* sistema.directorio_actual (a Carpeta id)
    ruta_actual,            \* sistema.ruta_actual (a string)
    historial_operaciones,  \* sistema.historial_operaciones (a Pila)
    errores,                \* sistema.errores (a Pila)
    reloj,                  \* datetime.now(), as a counter
    respaldo,               \* the latest backup document on disk
    resultado               \* what the last operation returned

vars == <<grado, log_operaciones, indice_global, carpetas, unidades, unidad_actual,
          directorio_actual, ruta_actual, historial_operaciones, errores, reloj, respaldo, resultado>>

-----------------------------------------------------------------------------
(* Strings *)

\* The characters of the model, in code point order.
Alfabeto ==
    <<" ", ".", "/", ":", "A", "B", "C", "D", "E", "Q", "S", "X", "Y", "\\",
      "a", "b", "c", "d", "e", "q", "s", "x", "y">>

Ord(c) == CHOOSE i \in 1..Len(Alfabeto) : Alfabeto[i] = c

\* The letters that have two cases
Mayusculas == <<"A", "B", "C", "D", "E", "Q", "S", "X", "Y">>

Minusculas == <<"a", "b", "c", "d", "e", "q", "s", "x", "y">>

LowerChar(c) ==
    IF \E i \in 1..Len(Mayusculas) : Mayusculas[i] = c
    THEN Minusculas[CHOOSE i \in 1..Len(Mayusculas) : Mayusculas[i] = c]
    ELSE c

UpperChar(c) ==
    IF \E i \in 1..Len(Minusculas) : Minusculas[i] = c
    THEN Mayusculas[CHOOSE i \in 1..Len(Minusculas) : Minusculas[i] = c]
    ELSE c

\* str.upper()
Upper(s) == [i \in 1..Len(s) |-> UpperChar(s[i])]

\* str.lower()
Lower(s) == [i \in 1..Len(s) |-> LowerChar(s[i])]

RECURSIVE StrLt(_, _)
\* a < b on Python strings
StrLt(a, b) ==
    IF b = <<>> THEN FALSE
    ELSE IF a = <<>> THEN TRUE
    ELSE IF a[1] = b[1] THEN StrLt(Tail(a), Tail(b))
    ELSE Ord(a[1]) < Ord(b[1])

StrGt(a, b) == StrLt(b, a)

\* s.startswith(p)
StartsWith(s, p) == Len(p) <= Len(s) /\ SubSeq(s, 1, Len(p)) = p

\* s.endswith(p)
EndsWith(s, p) == Len(p) <= Len(s) /\ SubSeq(s, Len(s) - Len(p) + 1, Len(s)) = p

\* c in s, for a character c
Contiene(s, c) == \E i \in 1..Len(s) : s[i] = c

\* s.replace("\\", "/")
ReemplazarBarras(s) == [i \in 1..Len(s) |-> IF s[i] = "\\" THEN "/" ELSE s[i]]

RECURSIVE Join(_, _)
\* sep.join(partes)
Join(partes, sep) ==
    IF partes = <<>> THEN <<>>
    ELSE IF Len(partes) = 1 THEN partes[1]
    ELSE partes[1] \o sep \o Join(Tail(partes), sep)

\* partes[:-1]
SinUltimo(partes) == SubSeq(partes, 1, Len(partes) - 1)

\* list.insert(p - 1, x): x ends up at (1-based) position p
InsertAt(s, p, x) == SubSeq(s, 1, p - 1) \o <<x>> \o SubSeq(s, p, Len(s))

RECURSIVE Flatten(_)
\* The concatenation of a sequence of sequences
Flatten(ss) == IF ss = <<>> THEN <<>> ELSE Head(ss) \o Flatten(Tail(ss))

\* The number of positions of s holding x
Count(s, x) == Cardinality({i \in 1..Len(s) : s[i] = x})

\* The elements of a sequence
Range(s) == {s[i] : i \in 1..Len(s)}

\* Two sequences hold the same elements the same number of times
SameMultiset(s, t) ==
    /\ Len(s) = Len(t)
    /\ \A x \in Range(s) \cup Range(t) : Count(s, x) = Count(t, x)

-----------------------------------------------------------------------------
(* indice_global.py: BTreeNode, BTree *)

\* ArchivoIndexEntry
ArchivoIndexEntry(nombre, ruta_completa, tamano_kb, fc, fm, extension) ==
    [nombre |-> nombre, ruta_completa |-> ruta_completa, tamano_kb |-> tamano_kb,
     fecha_creacion |-> fc, fecha_modificacion |-> fm, extension |-> extension]

\* BTreeNode(grado, es_hoja)
BTreeNode(es_hoja) ==
    [es_hoja |-> es_hoja, claves |-> <<>>, valores |-> <<>>, hijos |-> <<>>]

RECURSIVE _buscar(_, _)
\* BTree._buscar: the value list of the first key equal to clave on the search path
_buscar(nodo, clave) ==
    LET n == Len(nodo.claves)
        \* while i < len(claves) and clave > claves[i]: i += 1   (i is 1-based here)
        stops == {p \in 1..n : ~StrGt(clave, nodo.claves[p])}
        i == IF stops = {} THEN n + 1 ELSE CHOOSE p \in stops : \A q \in stops : p <= q
    IN  IF i <= n /\ clave = nodo.claves[i] THEN nodo.valores[i]
        ELSE IF nodo.es_hoja THEN <<>>
        ELSE _buscar(nodo.hijos[i], clave)

\* BTree.buscar_exacta
buscar_exacta(raiz, clave) == _buscar(raiz, Lower(clave))

\* BTree._dividir_hijo(padre, indice, padre.hijos[indice]), indice 1-based
\* A split that leaves all the children of the node it splits with its left half
_dividir_hijo_sin_mover_hijos(padre, indice) ==
    LET t == grado
        hijo == padre.hijos[indice]
        nuevo == [es_hoja |-> hijo.es_hoja,
                  claves |-> SubSeq(hijo.claves, t + 1, Len(hijo.claves)),
                  valores |-> SubSeq(hijo.valores, t + 1, Len(hijo.valores)),
                  hijos |-> <<>>]
        viejo == [es_hoja |-> hijo.es_hoja,
                  claves |-> SubSeq(hijo.claves, 1, t - 1),
                  valores |-> SubSeq(hijo.valores, 1, t - 1),
                  hijos |-> hijo.hijos]
    IN  [es_hoja |-> padre.es_hoja,
         claves |-> InsertAt(padre.claves, indice, hijo.claves[t]),
         valores |-> InsertAt(padre.valores, indice, hijo.valores[t]),
         hijos |-> InsertAt([padre.hijos EXCEPT ![indice] = viejo], indice + 1, nuevo)]

_dividir_hijo(padre, indice) ==
    LET t == grado
        hijo == padre.hijos[indice]
        clave_mediana == hijo.claves[t]
        valor_mediano == hijo.valores[t]
        nuevo == [es_hoja |-> hijo.es_hoja,
                  claves |-> SubSeq(hijo.claves, t + 1, Len(hijo.claves)),
                  valores |-> SubSeq(hijo.valores, t + 1, Len(hijo.valores)),
                  hijos |-> IF hijo.es_hoja THEN <<>>
                            ELSE SubSeq(hijo.hijos, t + 1, Len(hijo.hijos))]
        viejo == [es_hoja |-> hijo.es_hoja,
                  claves |-> SubSeq(hijo.claves, 1, t - 1),
                  valores |-> SubSeq(hijo.valores, 1, t - 1),
                  hijos |-> IF hijo.es_hoja THEN <<>> ELSE SubSeq(hijo.hijos, 1, t)]
    IN  [es_hoja |-> padre.es_hoja,
         claves |-> InsertAt(padre.claves, indice, clave_mediana),
         valores |-> InsertAt(padre.valores, indice, valor_mediano),
         hijos |-> InsertAt([padre.hijos EXCEPT ![indice] = viejo], indice + 1, nuevo)]

\* The loop "i = len(claves) - 1; while i >= 0 and clave < claves[i]: i -= 1":
\* the (1-based) position it stops at, 0 when it runs off the left end.
PosicionDesdeDerecha(claves, clave) ==
    LET stops == {p \in 1..Len(claves) : ~StrLt(clave, claves[p])}
    IN  IF stops = {} THEN 0 ELSE CHOOSE p \in stops : \A q \in stops : q <= p

RECURSIVE _insertar_no_lleno(_, _, _)
\* BTree._insertar_no_lleno
_insertar_no_lleno(nodo, clave, entrada) ==
    LET i == PosicionDesdeDerecha(nodo.claves, clave)
    IN  IF nodo.es_hoja THEN
            IF i >= 1 /\ nodo.claves[i] = clave
            THEN [nodo EXCEPT !.valores[i] = Append(@, entrada)]
            ELSE [nodo EXCEPT !.claves = InsertAt(@, i + 1, clave),
                              !.valores = InsertAt(@, i + 1, <<entrada>>)]
        ELSE
            LET j == i + 1
                lleno == Len(nodo.hijos[j].claves) = (2 * grado) - 1
                dividido == IF lleno THEN _dividir_hijo(nodo, j) ELSE nodo
                k == IF lleno /\ StrGt(clave, dividido.claves[j]) THEN j + 1 ELSE j
            IN  [dividido EXCEPT !.hijos[k] = _insertar_no_lleno(@, clave, entrada)]

\* BTree.insertar
insertar(raiz, clave_dada, entrada) ==
    LET clave == Lower(clave_dada)
    IN  IF Len(raiz.claves) = (2 * grado) - 1 THEN
            LET nueva_raiz == [es_hoja |-> FALSE, claves |-> <<>>, valores |-> <<>>,
                               hijos |-> <<raiz>>]
            IN  _insertar_no_lleno(_dividir_hijo(nueva_raiz, 1), clave, entrada)
        ELSE _insertar_no_lleno(raiz, clave, entrada)

RECURSIVE _recorrer(_)
\* BTree.recorrer / BTree._recorrer: the entries in traversal order
_recorrer(nodo) ==
    IF nodo.es_hoja THEN Flatten(nodo.valores)
    ELSE Flatten([i \in 1..Len(nodo.valores) |->
                      _recorrer(nodo.hijos[i]) \o nodo.valores[i]])
         \o _recorrer(nodo.hijos[Len(nodo.hijos)])

recorrer(raiz) == _recorrer(raiz)

\* fragmento in clave, for two strings
EnCadena(fragmento, clave) ==
    \E i \in 0..(Len(clave) - Len(fragmento)) :
        SubSeq(clave, i + 1, i + Len(fragmento)) = fragmento

RECURSIVE _buscar_fragmento_solo_hojas(_, _)
\* A _buscar_fragmento that looks at the keys of the leaves only
_buscar_fragmento_solo_hojas(nodo, fragmento) ==
    IF nodo.es_hoja
    THEN Flatten([i \in 1..Len(nodo.claves) |->
                     IF EnCadena(fragmento, nodo.claves[i]) THEN nodo.valores[i] ELSE <<>>])
    ELSE Flatten([i \in 1..Len(nodo.hijos) |->
                     _buscar_fragmento_solo_hojas(nodo.hijos[i], fragmento)])

RECURSIVE _buscar_fragmento(_, _)
\* BTree._buscar_fragmento: the entries of the keys that hold the fragment, in
\* traversal order
_buscar_fragmento(nodo, fragmento) ==
    IF nodo.es_hoja
    THEN Flatten([i \in 1..Len(nodo.claves) |->
                     IF EnCadena(fragmento, nodo.claves[i]) THEN nodo.valores[i] ELSE <<>>])
    ELSE Flatten([i \in 1..Len(nodo.claves) |->
                     _buscar_fragmento(nodo.hijos[i], fragmento)
                     \o (IF EnCadena(fragmento, nodo.claves[i])
                         THEN nodo.valores[i] ELSE <<>>)])
         \o _buscar_fragmento(nodo.hijos[Len(nodo.hijos)], fragmento)

\* BTree.buscar_por_fragmento
buscar_por_fragmento(raiz, fragmento) == _buscar_fragmento(raiz, Lower(fragmento))

RECURSIVE ClavesDelArbol(_)
\* Every key of the tree, node by node, in traversal order
ClavesDelArbol(nodo) ==
    IF nodo.es_hoja THEN nodo.claves
    ELSE Flatten([i \in 1..Len(nodo.claves) |->
                      ClavesDelArbol(nodo.hijos[i]) \o <<nodo.claves[i]>>])
         \o ClavesDelArbol(nodo.hijos[Len(nodo.hijos)])

-----------------------------------------------------------------------------
(* entidades_fs.py: Archivo, NodoArchivoBinario, Carpeta, UnidadAlmacenamiento *)

\* Python's None
None == [none |-> TRUE]

\* None where a Carpeta is referred to by its id (padre, a lookup's result)
Nulo == 0

\* datetime.now().strftime(...): the current reading of the clock
Ahora == reloj

RECURSIVE UltimoPunto(_)
\* The position of the last "." of a name, 0 when it has none
UltimoPunto(nombre) ==
    IF nombre = <<>> THEN 0
    ELSE IF nombre[Len(nombre)] = "." THEN Len(nombre)
    ELSE UltimoPunto(SubSeq(nombre, 1, Len(nombre) - 1))

\* Archivo._obtener_extension: nombre.split(".")[-1] if "." in nombre else ""
_obtener_extension(nombre) ==
    IF UltimoPunto(nombre) = 0 THEN <<>>
    ELSE SubSeq(nombre, UltimoPunto(nombre) + 1, Len(nombre))

\* Archivo(nombre, contenido)
Archivo(nombre, contenido) ==
    [nombre |-> nombre, contenido |-> contenido,
     extension |-> _obtener_extension(nombre),
     fecha_creacion |-> Ahora, fecha_modificacion |-> Ahora]

\* NodoArchivoBinario(archivo)
NodoArchivoBinario(archivo) == [archivo |-> archivo, izq |-> None, der |-> None]

\* Carpeta(nombre, padre)
Carpeta(nombre, padre) ==
    [nombre |-> nombre, fecha_creacion |-> Ahora, fecha_modificacion |-> Ahora,
     subcarpetas |-> <<>>, archivos_raiz |-> None, padre |-> padre]

\* ElementoSistemaArchivos.actualizar_modificacion
actualizar_modificacion(carpeta) == [carpeta EXCEPT !.fecha_modificacion = Ahora]

\* Carpeta.agregar_carpeta: append, then touch; no check of any kind
agregar_carpeta(carpeta, sub) ==
    actualizar_modificacion([carpeta EXCEPT !.subcarpetas = Append(@, sub)])

\* list.remove(x): the list without its first occurrence of x
RemoveFirst(s, x) ==
    LET hits == {i \in 1..Len(s) : s[i] = x}
        i == CHOOSE p \in hits : \A q \in hits : p <= q
    IN  SubSeq(s, 1, i - 1) \o SubSeq(s, i + 1, Len(s))

\* Carpeta.eliminar_carpeta: <<removed, carpeta>>
eliminar_carpeta(carpeta, sub) ==
    IF sub \in Range(carpeta.subcarpetas)
    THEN <<TRUE, actualizar_modificacion(
                     [carpeta EXCEPT !.subcarpetas = RemoveFirst(@, sub)])>>
    ELSE <<FALSE, carpeta>>

RECURSIVE _insertar_archivo_exacto(_, _)
\* _insertar_archivo with the duplicate test made on the names as written
\* (archivo.nombre == nodo.archivo.nombre)
_insertar_archivo_exacto(nodo, archivo) ==
    IF archivo.nombre = nodo.archivo.nombre THEN <<FALSE, nodo>>
    ELSE IF StrLt(Lower(archivo.nombre), Lower(nodo.archivo.nombre)) THEN
        IF nodo.izq # None
        THEN LET r == _insertar_archivo_exacto(nodo.izq, archivo)
             IN  <<r[1], [nodo EXCEPT !.izq = r[2]]>>
        ELSE <<TRUE, [nodo EXCEPT !.izq = NodoArchivoBinario(archivo)]>>
    ELSE
        IF nodo.der # None
        THEN LET r == _insertar_archivo_exacto(nodo.der, archivo)
             IN  <<r[1], [nodo EXCEPT !.der = r[2]]>>
        ELSE <<TRUE, [nodo EXCEPT !.der = NodoArchivoBinario(archivo)]>>

RECURSIVE _insertar_archivo(_, _)
\* Carpeta._insertar_archivo: <<inserted, nodo>>
_insertar_archivo(nodo, archivo) ==
    IF Lower(archivo.nombre) = Lower(nodo.archivo.nombre) THEN <<FALSE, nodo>>
    ELSE IF StrLt(Lower(archivo.nombre), Lower(nodo.archivo.nombre)) THEN
        IF nodo.izq # None
        THEN LET r == _insertar_archivo(nodo.izq, archivo)
             IN  <<r[1], [nodo EXCEPT !.izq = r[2]]>>
        ELSE <<TRUE, [nodo EXCEPT !.izq = NodoArchivoBinario(archivo)]>>
    ELSE
        IF nodo.der # None
        THEN LET r == _insertar_archivo(nodo.der, archivo)
             IN  <<r[1], [nodo EXCEPT !.der = r[2]]>>
        ELSE <<TRUE, [nodo EXCEPT !.der = NodoArchivoBinario(archivo)]>>

\* An agregar_archivo that updates fecha_modificacion also when it rejects
agregar_archivo_siempre_toca(carpeta, archivo) ==
    IF carpeta.archivos_raiz = None
    THEN <<TRUE, actualizar_modificacion(
                     [carpeta EXCEPT !.archivos_raiz = NodoArchivoBinario(archivo)])>>
    ELSE <<_insertar_archivo(carpeta.archivos_raiz, archivo)[1],
           actualizar_modificacion(
               [carpeta EXCEPT !.archivos_raiz =
                                   _insertar_archivo(carpeta.archivos_raiz, archivo)[2]])>>

\* Carpeta.agregar_archivo: <<inserted, carpeta>>
agregar_archivo(carpeta, archivo) ==
    IF carpeta.archivos_raiz = None
    THEN <<TRUE, actualizar_modificacion(
                     [carpeta EXCEPT !.archivos_raiz = NodoArchivoBinario(archivo)])>>
    ELSE LET r == _insertar_archivo(carpeta.archivos_raiz, archivo)
         IN  IF r[1]
             THEN <<TRUE, actualizar_modificacion([carpeta EXCEPT !.archivos_raiz = r[2]])>>
             ELSE <<FALSE, carpeta>>

RECURSIVE _buscar_nodo_archivo(_, _)
\* Carpeta._buscar_nodo_archivo
_buscar_nodo_archivo(nodo, nombre_lower) ==
    IF nodo = None THEN None
    ELSE IF nombre_lower = Lower(nodo.archivo.nombre) THEN nodo
    ELSE IF StrLt(nombre_lower, Lower(nodo.archivo.nombre))
         THEN _buscar_nodo_archivo(nodo.izq, nombre_lower)
    ELSE _buscar_nodo_archivo(nodo.der, nombre_lower)

\* Carpeta.buscar_archivo
buscar_archivo(carpeta, nombre) ==
    LET nodo == _buscar_nodo_archivo(carpeta.archivos_raiz, Lower(nombre))
    IN  IF nodo # None THEN nodo.archivo ELSE None

RECURSIVE _min_nodo(_)
\* Carpeta._min_nodo
_min_nodo(nodo) == IF nodo.izq # None THEN _min_nodo(nodo.izq) ELSE nodo

RECURSIVE _eliminar_archivo(_, _)
\* Carpeta._eliminar_archivo: <<removed, nodo>>
_eliminar_archivo(nodo, nombre_lower) ==
    IF nodo = None THEN <<FALSE, None>>
    ELSE IF StrLt(nombre_lower, Lower(nodo.archivo.nombre)) THEN
        LET r == _eliminar_archivo(nodo.izq, nombre_lower)
        IN  <<r[1], [nodo EXCEPT !.izq = r[2]]>>
    ELSE IF StrGt(nombre_lower, Lower(nodo.archivo.nombre)) THEN
        LET r == _eliminar_archivo(nodo.der, nombre_lower)
        IN  <<r[1], [nodo EXCEPT !.der = r[2]]>>
    ELSE IF nodo.izq = None THEN <<TRUE, nodo.der>>
    ELSE IF nodo.der = None THEN <<TRUE, nodo.izq>>
    ELSE LET sucesor == _min_nodo(nodo.der)
             r == _eliminar_archivo(nodo.der, Lower(sucesor.archivo.nombre))
         IN  <<TRUE, [nodo EXCEPT !.archivo = sucesor.archivo, !.der = r[2]]>>

\* An eliminar_archivo that does not assign the new root of the BST
eliminar_archivo_sin_asignar(carpeta, nombre) ==
    IF _eliminar_archivo(carpeta.archivos_raiz, Lower(nombre))[1]
    THEN <<TRUE, actualizar_modificacion(carpeta)>>
    ELSE <<FALSE, carpeta>>

\* Carpeta.eliminar_archivo: <<removed, carpeta>>
eliminar_archivo(carpeta, nombre) ==
    LET r == _eliminar_archivo(carpeta.archivos_raiz, Lower(nombre))
    IN  IF r[1]
        THEN <<TRUE, actualizar_modificacion([carpeta EXCEPT !.archivos_raiz = r[2]])>>
        ELSE <<FALSE, carpeta>>

RECURSIVE _recorrer_archivos(_, _)
\* Carpeta._recorrer_archivos: the files visited, in the order of the traversal
_recorrer_archivos(nodo, orden) ==
    IF nodo = None THEN <<>>
    ELSE (IF orden = "preorden" THEN <<nodo.archivo>> ELSE <<>>)
         \o _recorrer_archivos(nodo.izq, orden)
         \o (IF orden = "inorden" THEN <<nodo.archivo>> ELSE <<>>)
         \o _recorrer_archivos(nodo.der, orden)
         \o (IF orden = "postorden" THEN <<nodo.archivo>> ELSE <<>>)

\* Carpeta.archivos_en_orden
archivos_en_orden(carpeta, orden) == _recorrer_archivos(carpeta.archivos_raiz, orden)

\* An esta_vacia that looks at the subdirectories only
esta_vacia_sin_archivos(carpeta) == carpeta.subcarpetas = <<>>

\* Carpeta.esta_vacia
esta_vacia(carpeta) == carpeta.subcarpetas = <<>> /\ carpeta.archivos_raiz = None

\* UnidadAlmacenamiento(nombre): nombre.rstrip(":") + ":"
RECURSIVE RStripDosPuntos(_)
RStripDosPuntos(s) ==
    IF s # <<>> /\ s[Len(s)] = ":" THEN RStripDosPuntos(SubSeq(s, 1, Len(s) - 1)) ELSE s

NombreUnidad(nombre) == RStripDosPuntos(nombre) \o <<":">>

-----------------------------------------------------------------------------
(* indice_global.py: IndiceGlobalArchivos, the facade of the index *)

\* The bytes of a kilobyte
BytesPorKb == 1024

\* A text: what it says and len(contenido.encode("utf-8"))
Contenido(texto, bytes) == [texto |-> texto, bytes |-> bytes]

\* len(contenido.encode("utf-8")) of a text given by how many of its characters
\* encode to one, two, three and four bytes
LongitudUtf8(cuenta) == cuenta[1] + (2 * cuenta[2]) + (3 * cuenta[3]) + (4 * cuenta[4])

\* A calcular_tamano_kb without the minimum of one
calcular_tamano_kb_sin_minimo(contenido) ==
    IF contenido = None THEN 0
    ELSE (contenido.bytes + BytesPorKb - 1) \div BytesPorKb

\* IndiceGlobalArchivos.calcular_tamano_kb: max(1, ceil(bytes / 1024)), 0 for None
calcular_tamano_kb(contenido) ==
    IF contenido = None THEN 0
    ELSE LET techo == (contenido.bytes + BytesPorKb - 1) \div BytesPorKb
         IN  IF techo > 1 THEN techo ELSE 1

\* A limpiar that leaves the tree of the index as it is
limpiar_sin_vaciar == indice_global

\* IndiceGlobalArchivos.limpiar: BTree(grado) holds one empty leaf
limpiar == BTreeNode(TRUE)

\* IndiceGlobalArchivos.insertar_archivo
insertar_archivo(raiz, archivo, ruta_completa) ==
    insertar(raiz, Lower(archivo.nombre),
             ArchivoIndexEntry(archivo.nombre, ruta_completa,
                               calcular_tamano_kb(archivo.contenido),
                               archivo.fecha_creacion, archivo.fecha_modificacion,
                               archivo.extension))

RECURSIVE StripIzq(_)
StripIzq(s) == IF s # <<>> /\ Head(s) = " " THEN StripIzq(Tail(s)) ELSE s

RECURSIVE StripDer(_)
StripDer(s) ==
    IF s # <<>> /\ s[Len(s)] = " " THEN StripDer(SubSeq(s, 1, Len(s) - 1)) ELSE s

\* IndiceGlobalArchivos._normalizar_ruta: ruta.replace("\\", "/").strip()
_normalizar_ruta(ruta) ==
    StripDer(StripIzq([i \in 1..Len(ruta) |-> IF ruta[i] = "\\" THEN "/" ELSE ruta[i]]))

RECURSIVE InsertarTodas(_, _)
\* for entrada in entradas: arbol.insertar(entrada.nombre.lower(), entrada)
InsertarTodas(raiz, entradas) ==
    IF entradas = <<>> THEN raiz
    ELSE InsertarTodas(insertar(raiz, Lower(Head(entradas).nombre), Head(entradas)),
                       Tail(entradas))

\* IndiceGlobalArchivos._reconstruir_desde_lista
_reconstruir_desde_lista(entradas) == InsertarTodas(limpiar, entradas)

\* An eliminar_por_ruta that matches the entries by the file name the path ends
\* with, whatever their directory
eliminar_por_ruta_por_nombre(raiz, ruta_completa) ==
    LET ruta_norm == _normalizar_ruta(ruta_completa)
        restantes == SelectSeq(recorrer(raiz),
                         LAMBDA e : ~EndsWith(ruta_norm, <<"/">> \o e.nombre))
    IN  IF Len(restantes) = Len(recorrer(raiz)) THEN <<FALSE, raiz>>
        ELSE <<TRUE, _reconstruir_desde_lista(restantes)>>

\* IndiceGlobalArchivos.eliminar_por_ruta: <<removed, raiz>>
eliminar_por_ruta(raiz, ruta_completa) ==
    LET ruta_norm == _normalizar_ruta(ruta_completa)
        restantes == SelectSeq(recorrer(raiz),
                         LAMBDA e : _normalizar_ruta(e.ruta_completa) # ruta_norm)
    IN  IF Len(restantes) = Len(recorrer(raiz)) THEN <<FALSE, raiz>>
        ELSE <<TRUE, _reconstruir_desde_lista(restantes)>>

\* IndiceGlobalArchivos.eliminar_por_prefijo: <<eliminados, raiz>>
eliminar_por_prefijo(raiz, prefijo) ==
    LET pref == _normalizar_ruta(prefijo)
        entradas == recorrer(raiz)
        restantes == SelectSeq(entradas,
                         LAMBDA e : ~StartsWith(_normalizar_ruta(e.ruta_completa), pref))
        eliminados == Len(entradas) - Len(restantes)
    IN  IF eliminados > 0 THEN <<eliminados, _reconstruir_desde_lista(restantes)>>
        ELSE <<0, raiz>>

\* IndiceGlobalArchivos.renombrar_ruta: <<actualizado, raiz>>
renombrar_ruta(raiz, ruta_anterior, nombre_nuevo, ruta_nueva) ==
    LET ruta_old == _normalizar_ruta(ruta_anterior)
        viejas == recorrer(raiz)
        toca(e) == _normalizar_ruta(e.ruta_completa) = ruta_old
        entradas == [i \in 1..Len(viejas) |->
                        IF toca(viejas[i])
                        THEN [viejas[i] EXCEPT !.nombre = nombre_nuevo,
                                               !.ruta_completa = ruta_nueva]
                        ELSE viejas[i]]
        actualizado == \E i \in 1..Len(viejas) : toca(viejas[i])
    IN  IF actualizado THEN <<TRUE, _reconstruir_desde_lista(entradas)>>
        ELSE <<FALSE, raiz>>

\* key(a) < key(b) for the sort keys of the searches: "parcial" is
\* (nombre.lower(), ruta_completa.lower()) and "combinado" is
\* (nombre.lower(), tamano_kb, ruta_completa.lower())
ClaveMenor(orden, a, b) ==
    IF Lower(a.nombre) # Lower(b.nombre) THEN StrLt(Lower(a.nombre), Lower(b.nombre))
    ELSE IF orden = "combinado" /\ a.tamano_kb # b.tamano_kb
         THEN a.tamano_kb < b.tamano_kb
    ELSE StrLt(Lower(a.ruta_completa), Lower(b.ruta_completa))

RECURSIVE sorted(_, _)
\* sorted(lista, key=...): a stable sort, each element going after those of the
\* elements before it whose key is not greater
sorted(lista, orden) ==
    IF lista = <<>> THEN <<>>
    ELSE InsertAt(sorted(SinUltimo(lista), orden),
                  1 + Cardinality({i \in 1..(Len(lista) - 1) :
                                      ~ClaveMenor(orden, lista[Len(lista)], lista[i])}),
                  lista[Len(lista)])

\* IndiceGlobalArchivos.buscar_parcial
buscar_parcial(raiz, fragmento) == sorted(buscar_por_fragmento(raiz, fragmento), "parcial")

\* An Optional argument is <<>> for None and <<v>> for the value v
\* The "continue" tests of buscar_combinado: the entry stays
EnRango(entrada, minimo_kb, maximo_kb) ==
    /\ ~(minimo_kb # <<>> /\ entrada.tamano_kb < minimo_kb[1])
    /\ ~(maximo_kb # <<>> /\ entrada.tamano_kb > maximo_kb[1])

\* A buscar_combinado whose upper bound leaves out the entries of that size
buscar_combinado_maximo_abierto(raiz, fragmento, minimo_kb, maximo_kb) ==
    sorted(SelectSeq(IF fragmento # <<>> /\ fragmento[1] # <<>>
                     THEN buscar_por_fragmento(raiz, fragmento[1]) ELSE recorrer(raiz),
                     LAMBDA e : /\ EnRango(e, minimo_kb, maximo_kb)
                                /\ (maximo_kb # <<>> => e.tamano_kb # maximo_kb[1])),
           "combinado")

\* IndiceGlobalArchivos.buscar_combinado
buscar_combinado(raiz, fragmento, minimo_kb, maximo_kb) ==
    sorted(SelectSeq(IF fragmento # <<>> /\ fragmento[1] # <<>>
                     THEN buscar_por_fragmento(raiz, fragmento[1]) ELSE recorrer(raiz),
                     LAMBDA e : EnRango(e, minimo_kb, maximo_kb)),
           "combinado")

\* ArchivoIndexEntry.to_dict
to_dict(e) ==
    [nombre |-> e.nombre, ruta_completa |-> e.ruta_completa, tamano_kb |-> e.tamano_kb,
     fecha_creacion |-> e.fecha_creacion, fecha_modificacion |-> e.fecha_modificacion,
     extension |-> e.extension]

\* ArchivoIndexEntry.from_dict
from_dict(data) ==
    ArchivoIndexEntry(data.nombre, data.ruta_completa, data.tamano_kb,
                      data.fecha_creacion, data.fecha_modificacion, data.extension)

\* IndiceGlobalArchivos.serializar
serializar(raiz) == [i \in 1..Len(recorrer(raiz)) |-> to_dict(recorrer(raiz)[i])]

\* A deserializar that adds the records to what the index holds
deserializar_sin_limpiar(datos) ==
    InsertarTodas(indice_global, [i \in 1..Len(datos) |-> from_dict(datos[i])])

\* IndiceGlobalArchivos.deserializar, on well-formed records
deserializar(datos) ==
    InsertarTodas(limpiar, [i \in 1..Len(datos) |-> from_dict(datos[i])])

-----------------------------------------------------------------------------
(* estructuras_datos.py: Pila.  cabeza is the chain of nodes, top first. *)

\* Pila()
Pila == [cabeza |-> <<>>, longitud |-> 0]

\* Pila.apilar
apilar(pila, valor) ==
    [cabeza |-> <<valor>> \o pila.cabeza, longitud |-> pila.longitud + 1]

\* Pila.desapilar counting down on the empty stack too
desapilar_descuenta_en_vacia(pila) ==
    IF pila.cabeza = <<>> THEN <<None, [pila EXCEPT !.longitud = @ - 1]>>
    ELSE <<Head(pila.cabeza),
           [cabeza |-> Tail(pila.cabeza), longitud |-> pila.longitud - 1]>>

\* Pila.desapilar: <<valor, pila>>
desapilar(pila) ==
    IF pila.cabeza = <<>> THEN <<None, pila>>
    ELSE <<Head(pila.cabeza),
           [cabeza |-> Tail(pila.cabeza), longitud |-> pila.longitud - 1]>>

\* Pila.esta_vacia
pila_esta_vacia(pila) == pila.cabeza = <<>>

-----------------------------------------------------------------------------
(* respaldos.py: the codec of the history stacks *)

RECURSIVE VaciarPila(_, _, _)
\* The first loop of _serializar_pila: <<pila, elementos, pila_temp>> at its end
VaciarPila(pila, elementos, pila_temp) ==
    IF pila_esta_vacia(pila) THEN <<pila, elementos, pila_temp>>
    ELSE LET r == desapilar(pila)
         IN  VaciarPila(r[2], Append(elementos, r[1]), apilar(pila_temp, r[1]))

RECURSIVE RellenarPila(_, _)
\* The second loop of _serializar_pila: pila once pila_temp is empty
RellenarPila(pila, pila_temp) ==
    IF pila_esta_vacia(pila_temp) THEN pila
    ELSE LET r == desapilar(pila_temp)
         IN  RellenarPila(apilar(pila, r[1]), r[2])

\* GestorRespaldos._serializar_pila: <<elementos, the stack as it is left>>
_serializar_pila(pila) ==
    LET v == VaciarPila(pila, <<>>, Pila)
    IN  <<v[2], RellenarPila(v[1], v[3])>>

\* reversed(lista)
Reversed(lista) == [i \in 1..Len(lista) |-> lista[Len(lista) + 1 - i]]

RECURSIVE ApilarTodos(_, _)
\* for elemento in lista: pila.apilar(elemento)
ApilarTodos(pila, lista) ==
    IF lista = <<>> THEN pila ELSE ApilarTodos(apilar(pila, Head(lista)), Tail(lista))

\* _deserializar_pila pushing the list in the order it is written
_deserializar_pila_sin_invertir(lista_elementos) == ApilarTodos(Pila, lista_elementos)

\* GestorRespaldos._deserializar_pila
_deserializar_pila(lista_elementos) == ApilarTodos(Pila, Reversed(lista_elementos))

-----------------------------------------------------------------------------
(* The store: the heap of directories, the units, paths *)

\* A unit of the chain: its name and the id of its root directory
UnidadAlmacenamiento(nombre, raiz) == [nombre |-> NombreUnidad(nombre), raiz |-> raiz]

\* The id a new Carpeta object gets: the least one not in use
NuevoId(cs) == CHOOSE i \in 1..(Cardinality(DOMAIN cs) + 1) : i \notin DOMAIN cs

RECURSIVE ruta_absoluta(_, _)
\* sistema.ruta_absoluta: the names from the unit's root down, joined by "/"
ruta_absoluta(cs, d) ==
    IF cs[d].padre = Nulo THEN cs[d].nombre
    ELSE ruta_absoluta(cs, cs[d].padre) \o <<"/">> \o cs[d].nombre

RECURSIVE Descendientes(_, _)
\* A directory and every directory below it
Descendientes(cs, d) ==
    {d} \cup UNION {Descendientes(cs, cs[d].subcarpetas[i]) :
                        i \in 1..Len(cs[d].subcarpetas)}

RECURSIVE ArchivosBajo(_, _)
\* <<archivo, ruta>> for every file at or below a directory: the files of the
\* directory in in-order, then its subdirectories in order
ArchivosBajo(cs, d) ==
    LET fs == archivos_en_orden(cs[d], "inorden")
    IN  [i \in 1..Len(fs) |-> <<fs[i], ruta_absoluta(cs, d) \o <<"/">> \o fs[i].nombre>>]
        \o Flatten([i \in 1..Len(cs[d].subcarpetas) |->
                        ArchivosBajo(cs, cs[d].subcarpetas[i])])

\* <<archivo, ruta>> for every file of every unit
ArchivosDelSistema(us, cs) ==
    Flatten([u \in 1..Len(us) |-> ArchivosBajo(cs, us[u].raiz)])

RECURSIVE InsertarArchivos(_, _)
\* insertar_archivo for each <<archivo, ruta>> of a list
InsertarArchivos(raiz, pares) ==
    IF pares = <<>> THEN raiz
    ELSE InsertarArchivos(insertar_archivo(raiz, Head(pares)[1], Head(pares)[2]),
                          Tail(pares))

\* sistema.reconstruir_indice_global: clear, then one entry per file of the trees
reconstruir_indice_global(us, cs) == InsertarArchivos(limpiar, ArchivosDelSistema(us, cs))

\* Carpeta.buscar_carpeta over the heap: the id of the subdirectory, or Nulo
buscar_carpeta(cs, d, nombre) ==
    LET hits == {i \in 1..Len(cs[d].subcarpetas) :
                     Lower(cs[cs[d].subcarpetas[i]].nombre) = Lower(nombre)}
    IN  IF hits = {} THEN Nulo
        ELSE cs[d].subcarpetas[CHOOSE i \in hits : \A j \in hits : i <= j]

\* A child of the directory, file or directory, has this name (case-insensitively)
NombreEnUso(cs, d, nombre) ==
    \/ buscar_carpeta(cs, d, nombre) # Nulo
    \/ buscar_archivo(cs[d], nombre) # None

RECURSIVE Split(_, _)
\* s.split(sep) for a one-character separator
Split(s, sep) ==
    LET hits == {i \in 1..Len(s) : s[i] = sep}
    IN  IF hits = {} THEN <<s>>
        ELSE LET i == CHOOSE p \in hits : \A q \in hits : p <= q
             IN  <<SubSeq(s, 1, i - 1)>> \o Split(SubSeq(s, i + 1, Len(s)), sep)

\* The position in the chain of the unit of this name (case-insensitive), 0 if none
BuscarUnidad(us, nombre) ==
    LET hits == {u \in 1..Len(us) : Lower(us[u].nombre) = Lower(nombre)}
    IN  IF hits = {} THEN 0 ELSE CHOOSE u \in hits : \A v \in hits : u <= v

RECURSIVE Caminar(_, _, _)
\* The walk of resolver_ruta over the components: the directory reached, or Nulo
Caminar(cs, d, partes) ==
    IF partes = <<>> THEN d
    ELSE LET parte == Head(partes)
         IN  IF parte = <<>> \/ parte = <<".">> THEN Caminar(cs, d, Tail(partes))
             ELSE IF parte = <<".", ".">> THEN
                 Caminar(cs, IF cs[d].padre # Nulo THEN cs[d].padre ELSE d, Tail(partes))
             ELSE IF buscar_carpeta(cs, d, parte) = Nulo THEN Nulo
             ELSE Caminar(cs, buscar_carpeta(cs, d, parte), Tail(partes))

\* sistema.resolver_ruta: [unidad, carpeta, error]
resolver_ruta(us, cs, ua, da, ruta) ==
    LET partes == Split(_normalizar_ruta(ruta), "/")
        primera == Head(partes)
        con_unidad == primera # <<>> /\ primera[Len(primera)] = ":"
        u == IF con_unidad THEN BuscarUnidad(us, primera) ELSE ua
        absoluta == con_unidad \/ primera = <<>>
        desde == IF u = 0 THEN Nulo ELSE IF absoluta THEN us[u].raiz ELSE da
        fin == IF u = 0 THEN Nulo
               ELSE Caminar(cs, desde, IF con_unidad THEN Tail(partes) ELSE partes)
    IN  [unidad |-> u, carpeta |-> fin, error |-> (u = 0 \/ fin = Nulo)]

\* The position in the chain of the unit a directory belongs to
UnidadDe(us, cs, d) ==
    CHOOSE u \in 1..Len(us) : d \in Descendientes(cs, us[u].raiz)

-----------------------------------------------------------------------------
(* respaldos.py: the snapshot document and its codec *)

\* A document none of whose parts is damaged
Sano == <<>>

\* No backup file on disk
SinRespaldo == [sin_respaldo |-> TRUE]

\* The dict written for a file
SerializarArchivo(arch) ==
    [tipo |-> "archivo", nombre |-> arch.nombre, contenido |-> arch.contenido,
     fecha_creacion |-> arch.fecha_creacion,
     fecha_modificacion |-> arch.fecha_modificacion, extension |-> arch.extension]

RECURSIVE _serializar_carpeta(_, _)
\* GestorRespaldos._serializar_carpeta
_serializar_carpeta(cs, d) ==
    [tipo |-> "carpeta",
     nombre |-> cs[d].nombre,
     fecha_creacion |-> cs[d].fecha_creacion,
     fecha_modificacion |-> cs[d].fecha_modificacion,
     subcarpetas |-> [i \in 1..Len(cs[d].subcarpetas) |->
                          _serializar_carpeta(cs, cs[d].subcarpetas[i])],
     archivos |-> LET fs == archivos_en_orden(cs[d], "preorden")
                  IN  [i \in 1..Len(fs) |-> SerializarArchivo(fs[i])]]

\* GestorRespaldos._serializar_unidades
_serializar_unidades(us, cs) ==
    [u \in 1..Len(us) |->
        [nombre |-> us[u].nombre, raiz |-> _serializar_carpeta(cs, us[u].raiz)]]

\* The datos_respaldo of GestorRespaldos.respaldar_automatico.  danado names
\* the part of the file, if any, that is no longer what the codec expects (a
\* number where a list or a dict should be): using that part raises.
Documento(us, cs, ua, ruta, historial, errs, raiz_indice) ==
    [fecha_respaldo |-> Ahora,
     unidad_actual |-> IF ua = 0 THEN <<>> ELSE us[ua].nombre,
     ruta_actual |-> ruta,
     historial_operaciones |-> _serializar_pila(historial)[1],
     errores |-> _serializar_pila(errs)[1],
     unidades |-> _serializar_unidades(us, cs),
     indice_global |-> serializar(raiz_indice),
     danado |-> Sano]

\* The Archivo built from its dict in _deserializar_carpeta
DeserializarArchivo(arch_datos) ==
    [Archivo(arch_datos.nombre, arch_datos.contenido) EXCEPT
        !.fecha_creacion = arch_datos.fecha_creacion,
        !.fecha_modificacion = arch_datos.fecha_modificacion,
        !.extension = arch_datos.extension]

RECURSIVE AgregarArchivos(_, _)
\* for arch_datos in archivos: nueva_carpeta.agregar_archivo(Archivo(...))
AgregarArchivos(carpeta, archivos) ==
    IF archivos = <<>> THEN carpeta
    ELSE AgregarArchivos(agregar_archivo(carpeta, DeserializarArchivo(Head(archivos)))[2],
                         Tail(archivos))

RECURSIVE _deserializar_carpeta(_, _, _)
RECURSIVE DeserializarSubcarpetas(_, _, _)
\* GestorRespaldos._deserializar_carpeta: <<id of the new Carpeta, heap>>
_deserializar_carpeta(datos_nodo, padre, cs) ==
    LET id == NuevoId(cs)
        nueva_carpeta == [Carpeta(datos_nodo.nombre, padre) EXCEPT
                             !.fecha_creacion = datos_nodo.fecha_creacion,
                             !.fecha_modificacion = datos_nodo.fecha_modificacion]
        con_subs == DeserializarSubcarpetas(datos_nodo.subcarpetas, id,
                                            (id :> nueva_carpeta) @@ cs)
    IN  <<id, [con_subs EXCEPT ![id] = AgregarArchivos(@, datos_nodo.archivos)]>>

\* A loop that builds each subdirectory without its parent
\* (_deserializar_carpeta(sub_datos, None))
DeserializarSubcarpetas_sin_padre(subs, id, cs) ==
    IF subs = <<>> THEN cs
    ELSE LET r == _deserializar_carpeta(Head(subs), Nulo, cs)
         IN  DeserializarSubcarpetas(Tail(subs), id,
                 [r[2] EXCEPT ![id] = agregar_carpeta(@, r[1])])

\* for sub_datos in subcarpetas: nueva_carpeta.agregar_carpeta(_deserializar_carpeta(...))
DeserializarSubcarpetas(subs, id, cs) ==
    IF subs = <<>> THEN cs
    ELSE LET r == _deserializar_carpeta(Head(subs), id, cs)
         IN  DeserializarSubcarpetas(Tail(subs), id,
                 [r[2] EXCEPT ![id] = agregar_carpeta(@, r[1])])

RECURSIVE _deserializar_unidades(_, _, _)
\* GestorRespaldos._deserializar_unidades: <<the chain, the heap>>
_deserializar_unidades(unidades_datos, us, cs) ==
    IF unidades_datos = <<>> THEN <<us, cs>>
    ELSE LET r == _deserializar_carpeta(Head(unidades_datos).raiz, Nulo, cs)
         IN  _deserializar_unidades(Tail(unidades_datos),
                 Append(us, UnidadAlmacenamiento(Head(unidades_datos).nombre, r[1])),
                 r[2])

\* The part of the document named by danado is damaged
Danado(datos, parte) == datos.danado # Sano /\ datos.danado[1] = parte

\* The sistema as cargar_ultimo_respaldo reads and writes it
Sistema(h, e, us, cs, ua, da, ruta, raiz_indice) ==
    [historial_operaciones |-> h, errores |-> e, unidades |-> us, carpetas |-> cs,
     unidad_actual |-> ua, directorio_actual |-> da, ruta_actual |-> ruta,
     indice_global |-> raiz_indice]

\* An adjustment that, when the saved path does not resolve, falls back to the
\* root of the head of the chain
AjustarDirectorio_a_la_cabeza(sis, us, cs, ua, res) ==
    IF res.error
    THEN [sis EXCEPT !.unidades = us, !.carpetas = cs, !.unidad_actual = ua,
                     !.directorio_actual = us[1].raiz,
                     !.ruta_actual = us[1].nombre]
    ELSE [sis EXCEPT !.unidades = us, !.carpetas = cs, !.unidad_actual = res.unidad,
                     !.directorio_actual = res.carpeta,
                     !.ruta_actual = ruta_absoluta(cs, res.carpeta)]

\* Lines 84-93 of cargar_ultimo_respaldo: the current directory and path, from
\* the saved path resolved in the new units
AjustarDirectorio(sis, us, cs, ua, res) ==
    IF res.error
    THEN [sis EXCEPT !.unidades = us, !.carpetas = cs, !.unidad_actual = ua,
                     !.directorio_actual = us[ua].raiz,
                     !.ruta_actual = us[ua].nombre]
    ELSE [sis EXCEPT !.unidades = us, !.carpetas = cs, !.unidad_actual = res.unidad,
                     !.directorio_actual = res.carpeta,
                     !.ruta_actual = ruta_absoluta(cs, res.carpeta)]

\* A selection that takes the last unit of the chain when the saved name
\* matches none
SeleccionarUnidad_ultima(us, u) == IF u = 0 THEN Len(us) ELSE u

\* Lines 76-83 of cargar_ultimo_respaldo: the saved unit if the chain has it,
\* else the head of the chain
SeleccionarUnidad(us, u) == IF u = 0 THEN 1 ELSE u

\* Lines 74-93 of cargar_ultimo_respaldo, us and cs being the new chain and heap
ConUnidades(sis, datos, us, cs, ua) ==
    AjustarDirectorio(sis, us, cs, ua,
        resolver_ruta(us, cs, ua, sis.directorio_actual, datos.ruta_actual))

\* Lines 74-83 of cargar_ultimo_respaldo, r being what _deserializar_unidades returned
ConDeserializadas(sis, datos, r) ==
    ConUnidades(sis, datos, r[1], r[2],
        SeleccionarUnidad(r[1], BuscarUnidad(r[1], NombreUnidad(datos.unidad_actual))))

\* Lines 72-93 of cargar_ultimo_respaldo: the units, the current unit, the
\* current directory and path
CargarUnidades(sis, datos) ==
    IF datos.unidades = <<>> THEN sis
    ELSE ConDeserializadas(sis, datos, _deserializar_unidades(datos.unidades, <<>>, <<>>))

\* A load of the index that deserializes whatever the document holds and
\* never rebuilds
CargarIndice_sin_reconstruir(sis, datos) ==
    [sis EXCEPT !.indice_global = deserializar(datos.indice_global)]

\* Lines 95-99 of cargar_ultimo_respaldo: the index, deserialized or rebuilt.
\* datos.get("indice_global") of a document without the field is None, which
\* "if indice_serializado" takes like the empty list.
CargarIndice(sis, datos) ==
    IF datos.indice_global # <<>>
    THEN [sis EXCEPT !.indice_global =
                         IF Danado(datos, "indice_global")
                         THEN deserializar(SubSeq(datos.indice_global, 1,
                                                  datos.danado[2] - 1))
                         ELSE deserializar(datos.indice_global)]
    ELSE [sis EXCEPT !.indice_global =
                         reconstruir_indice_global(sis.unidades, sis.carpetas)]

\* GestorRespaldos.cargar_ultimo_respaldo: <<returned, the sistema as it is left>>.
\* An exception leaves what was assigned before it and returns False.
cargar_ultimo_respaldo(sis, datos) ==
    IF datos = SinRespaldo THEN <<FALSE, sis>>
    ELSE IF Danado(datos, "historial_operaciones") THEN <<FALSE, sis>>
    ELSE LET s1 == [sis EXCEPT !.historial_operaciones =
                                   _deserializar_pila(datos.historial_operaciones)]
         IN  IF Danado(datos, "errores") THEN <<FALSE, s1>>
             ELSE LET s2 == [s1 EXCEPT !.errores = _deserializar_pila(datos.errores)]
                  IN  IF Danado(datos, "unidades") THEN <<FALSE, s2>>
                      ELSE <<~Danado(datos, "indice_global"),
                             CargarIndice(CargarUnidades(s2, datos), datos)>>

-----------------------------------------------------------------------------
(* comandos.py: the command layer over SistemaArchivos (sistema_archivos.py) *)

\* The SistemaArchivos a command reads and writes: one unit, unidad_raiz, whose
\* root directory is raiz
SistemaArchivos(cs, da, ruta, h, r) ==
    [unidad_raiz |-> <<"C", ":">>, raiz |-> 1, carpetas |-> cs,
     directorio_actual |-> da, ruta_actual |-> ruta,
     historial_operaciones |-> h, respaldo |-> r]

\* carpeta.contenido: the elements of a directory, its subdirectories and files
ContenidoCarpeta(cs, d) ==
    [i \in 1..Len(cs[d].subcarpetas) |->
        [tipo |-> "carpeta", nombre |-> cs[cs[d].subcarpetas[i]].nombre,
         id |-> cs[d].subcarpetas[i]]]
    \o LET fs == archivos_en_orden(cs[d], "inorden")
       IN  [i \in 1..Len(fs) |-> [tipo |-> "archivo", nombre |-> fs[i].nombre, id |-> Nulo]]

\* A lookup that compares the names as they are written
BuscarEnContenido_exacto(cs, d, nombre, solo_carpetas) ==
    LET hits == SelectSeq(ContenidoCarpeta(cs, d),
                          LAMBDA e : /\ e.nombre = nombre
                                     /\ (solo_carpetas => e.tipo = "carpeta"))
    IN  IF hits = <<>> THEN None ELSE Head(hits)

\* for elemento in contenido: the first one of that name (case-insensitively),
\* among the directories only or among all elements; None if there is none
BuscarEnContenido(cs, d, nombre, solo_carpetas) ==
    LET hits == SelectSeq(ContenidoCarpeta(cs, d),
                          LAMBDA e : /\ Lower(e.nombre) = Lower(nombre)
                                     /\ (solo_carpetas => e.tipo = "carpeta"))
    IN  IF hits = <<>> THEN None ELSE Head(hits)

\* SistemaArchivos.registrar_operacion
registrar_operacion(sis, operacion) ==
    IF log_operaciones
    THEN [sis EXCEPT !.historial_operaciones = apilar(@, <<Ahora>> \o operacion)]
    ELSE sis

\* SistemaArchivos.respaldar_automatico: the datos_respaldo of its GestorRespaldos
respaldar_automatico(sis) ==
    [sis EXCEPT !.respaldo =
        [fecha_respaldo |-> Ahora,
         ruta_actual |-> sis.ruta_actual,
         historial_operaciones |-> _serializar_pila(sis.historial_operaciones)[1],
         errores |-> _serializar_pila(errores)[1],
         sistema_archivos |-> _serializar_carpeta(sis.carpetas, sis.raiz)]]

\* ruta_actual after stepping into parte
RutaMasParte(ruta, parte) ==
    IF EndsWith(ruta, <<":">>) THEN ruta \o <<"/">> \o parte
    ELSE IF EndsWith(ruta, <<"/">>) THEN ruta \o parte
    ELSE ruta \o <<"/">> \o parte

\* ruta_actual after stepping up to a directory that is not the root
RutaRecortada(sis, ruta) ==
    IF Len(Split(ruta, "/")) > 1 THEN Join(SinUltimo(Split(ruta, "/")), <<"/">>)
    ELSE sis.unidad_raiz

RECURSIVE RecorrerPartes_sin_tope(_, _, _, _)
\* A walk for which ".." in a directory without padre is a missing component
RecorrerPartes_sin_tope(sis, partes, da, ruta) ==
    IF partes = <<>> THEN [error |-> FALSE, directorio_actual |-> da, ruta_actual |-> ruta]
    ELSE LET parte == Head(partes)
             cs == sis.carpetas
             siguiente == BuscarEnContenido(cs, da, parte, TRUE)
         IN  IF parte = <<>> \/ parte = <<".">>
             THEN RecorrerPartes_sin_tope(sis, Tail(partes), da, ruta)
             ELSE IF parte = <<".", ".">> /\ cs[da].padre # Nulo
             THEN RecorrerPartes_sin_tope(sis, Tail(partes), cs[da].padre,
                      IF cs[da].padre = sis.raiz THEN sis.unidad_raiz
                      ELSE RutaRecortada(sis, ruta))
             ELSE IF parte = <<".", ".">> \/ siguiente = None
             THEN [error |-> TRUE, directorio_actual |-> da, ruta_actual |-> ruta,
                   parte |-> parte]
             ELSE RecorrerPartes_sin_tope(sis, Tail(partes), siguiente.id,
                                          RutaMasParte(ruta, parte))

RECURSIVE RecorrerPartes(_, _, _, _)
\* The loop over partes of _manejar_ruta_absoluta and _manejar_ruta_relativa on
\* the locals directorio_actual and ruta_actual: where it ends, or the error and
\* the parte its message names
RecorrerPartes(sis, partes, da, ruta) ==
    IF partes = <<>> THEN [error |-> FALSE, directorio_actual |-> da, ruta_actual |-> ruta]
    ELSE LET parte == Head(partes)
             cs == sis.carpetas
             siguiente == BuscarEnContenido(cs, da, parte, TRUE)
         IN  IF parte = <<>> \/ parte = <<".">>
             THEN RecorrerPartes(sis, Tail(partes), da, ruta)
             ELSE IF parte = <<".", ".">>
             THEN IF cs[da].padre = Nulo
                  THEN RecorrerPartes(sis, Tail(partes), da, ruta)
                  ELSE RecorrerPartes(sis, Tail(partes), cs[da].padre,
                           IF cs[da].padre = sis.raiz THEN sis.unidad_raiz
                           ELSE RutaRecortada(sis, ruta))
             ELSE IF siguiente = None
             THEN [error |-> TRUE, directorio_actual |-> da, ruta_actual |-> ruta,
                   parte |-> parte]
             ELSE RecorrerPartes(sis, Tail(partes), siguiente.id,
                                 RutaMasParte(ruta, parte))

\* A return that assigns the locals of the walk to the sistema also when the
\* walk stopped at a missing component
TrasRecorrer_a_medias(sis, fin) ==
    IF fin.error
    THEN <<"Error: No se encuentra el directorio",
           [sis EXCEPT !.directorio_actual = fin.directorio_actual,
                       !.ruta_actual = fin.ruta_actual],
           fin.parte>>
    ELSE <<"Directorio actual",
           [sis EXCEPT !.directorio_actual = fin.directorio_actual,
                       !.ruta_actual = fin.ruta_actual]>>

\* What a walk that ended returns: the error "Error: No se encuentra el
\* directorio: {parte}" (the message, the sistema, the parte named), or the
\* sistema moved there
TrasRecorrer(sis, fin) ==
    IF fin.error THEN <<"Error: No se encuentra el directorio", sis, fin.parte>>
    ELSE <<"Directorio actual",
           [sis EXCEPT !.directorio_actual = fin.directorio_actual,
                       !.ruta_actual = fin.ruta_actual]>>

\* ComandoCD._manejar_ruta_absoluta
_manejar_ruta_absoluta(sis, ruta) ==
    LET normal == ReemplazarBarras(ruta)
        ruta_normalizada ==
            IF StartsWith(normal, sis.unidad_raiz \o <<"/">>)
            THEN SubSeq(normal, Len(sis.unidad_raiz) + 2, Len(normal))
            ELSE IF normal = sis.unidad_raiz THEN <<>>
            ELSE normal
    IN  IF ruta_normalizada = <<>>
        THEN <<"Directorio actual",
               [sis EXCEPT !.directorio_actual = sis.raiz,
                           !.ruta_actual = sis.unidad_raiz]>>
        ELSE TrasRecorrer(sis, RecorrerPartes(sis, Split(ruta_normalizada, "/"),
                                              sis.raiz, sis.unidad_raiz))

\* ComandoCD._manejar_ruta_relativa
_manejar_ruta_relativa(sis, ruta) ==
    TrasRecorrer(sis, RecorrerPartes(sis, Split(ReemplazarBarras(ruta), "/"),
                                     sis.directorio_actual, sis.ruta_actual))

\* A _retroceder_directorio that moves to the parent and keeps the path
_retroceder_directorio_sin_recortar(sis) ==
    IF sis.carpetas[sis.directorio_actual].padre = Nulo
    THEN <<"Ya estas en el directorio raiz", sis>>
    ELSE <<"Directorio actual",
           [sis EXCEPT !.directorio_actual = sis.carpetas[@].padre]>>

\* ComandoCD._retroceder_directorio
_retroceder_directorio(sis) ==
    IF sis.carpetas[sis.directorio_actual].padre = Nulo
    THEN <<"Ya estas en el directorio raiz", sis>>
    ELSE LET recortada == Join(SinUltimo(Split(sis.ruta_actual, "/")), <<"/">>)
         IN  <<"Directorio actual",
               [sis EXCEPT !.directorio_actual = sis.carpetas[@].padre,
                           !.ruta_actual = IF recortada = <<>> THEN sis.unidad_raiz
                                           ELSE recortada]>>

\* ComandoCD._cambiar_directorio; its error is "Error: El directorio
\* '{nombre_carpeta}' no existe o no es una carpeta." (the message, the sistema,
\* the name it holds)
_cambiar_directorio(sis, nombre_carpeta) ==
    LET carpeta_destino == BuscarEnContenido(sis.carpetas, sis.directorio_actual,
                                             nombre_carpeta, TRUE)
    IN  IF carpeta_destino = None
        THEN <<"Error: El directorio no existe o no es una carpeta", sis, nombre_carpeta>>
        ELSE <<"Directorio actual",
               [sis EXCEPT !.directorio_actual = carpeta_destino.id,
                           !.ruta_actual = sis.ruta_actual \o <<"/">> \o nombre_carpeta]>>

\* ComandoCD.ejecutar: <<the message returned, the sistema as it is left>>
ComandoCD(sis, argumentos) ==
    IF argumentos = <<>> THEN <<"cd <ruta>", sis>>
    ELSE LET ruta == IF StartsWith(argumentos[1], <<"/">>)
                        /\ ~StartsWith(argumentos[1], sis.unidad_raiz)
                     THEN sis.unidad_raiz \o argumentos[1]
                     ELSE argumentos[1]
             s1 == registrar_operacion(sis, <<"cd ", ruta>>)
         IN  IF StartsWith(ruta, sis.unidad_raiz) THEN _manejar_ruta_absoluta(s1, ruta)
             ELSE IF Contiene(ruta, "/") \/ Contiene(ruta, "\\")
             THEN _manejar_ruta_relativa(s1, ruta)
             ELSE IF ruta = <<".", ".">> THEN _retroceder_directorio(s1)
             ELSE _cambiar_directorio(s1, ruta)

\* resultado.startswith("Error"), for the messages of the commands
EmpiezaConError(mensaje) ==
    mensaje \in {"Error: No se encuentra el directorio",
                 "Error: El directorio no existe o no es una carpeta",
                 "Error: Ya existe un elemento",
                 "Error: Se requiere especificar un directorio",
                 "Error: La carpeta no existe",
                 "Error: La carpeta no esta vacia",
                 "Error interno al intentar eliminar la carpeta"}

\* caracteres_invalidos of _validar_nombre and _validar_nombre_archivo
CaracteresInvalidos == {"/", "\\", ":", "*", "?", "\"", "<", ">", "|"}

\* A _validar_nombre that lets the characters after the first two of the list
\* through
_validar_nombre_corto(nombre) ==
    /\ \A c \in {"/", "\\"} : ~Contiene(nombre, c)
    /\ \E i \in 1..Len(nombre) : nombre[i] # " "

\* ComandoMKDIR._validar_nombre
_validar_nombre(nombre) ==
    /\ \A c \in CaracteresInvalidos : ~Contiene(nombre, c)
    /\ \E i \in 1..Len(nombre) : nombre[i] # " "

\* ComandoTYPE._validar_nombre_archivo
_validar_nombre_archivo(nombre) ==
    /\ \A c \in CaracteresInvalidos : ~Contiene(nombre, c)
    /\ \E i \in 1..Len(nombre) : nombre[i] # " "
    /\ Contiene(nombre, ".")

\* carpeta.agregar_elemento(elemento) on the directory d of the heap, the
\* element being a new Carpeta of that name
AgregarElementoCarpeta(cs, d, nombre) ==
    LET id == NuevoId(cs)
    IN  (id :> Carpeta(nombre, d)) @@ [cs EXCEPT ![d] = agregar_carpeta(@, id)]

\* carpeta.agregar_elemento(elemento), the element being an Archivo
AgregarElementoArchivo(cs, d, archivo) ==
    [cs EXCEPT ![d] = agregar_archivo(@, archivo)[2]]

\* ComandoMKDIR._crear_directorio_actual
_crear_directorio_actual(sis, nombre_carpeta) ==
    IF ~_validar_nombre(nombre_carpeta) THEN <<"Nombre de carpeta invalido", sis>>
    ELSE IF BuscarEnContenido(sis.carpetas, sis.directorio_actual, nombre_carpeta,
                              FALSE) # None
    THEN <<"Error: Ya existe un elemento", sis>>
    ELSE LET s1 == [sis EXCEPT !.carpetas =
                        AgregarElementoCarpeta(@, sis.directorio_actual, nombre_carpeta)]
             s2 == registrar_operacion(s1, <<"mkdir ", nombre_carpeta>>)
         IN  <<"Carpeta creada exitosamente", respaldar_automatico(s2)>>

\* sistema.directorio_actual = directorio_original;
\* sistema.ruta_actual = ruta_original
RestaurarDirectorio(sis, original) ==
    [sis EXCEPT !.directorio_actual = original.directorio_actual,
                !.ruta_actual = original.ruta_actual]

\* _crear_directorio_en_ruta without the restore after the creation attempt
_crear_directorio_en_ruta_sin_restaurar(sis, ruta_completa) ==
    LET partes == Split(ReemplazarBarras(ruta_completa), "/")
        cd == ComandoCD(sis, <<Join(SinUltimo(partes), <<"/">>)>>)
    IN  IF EmpiezaConError(cd[1]) THEN <<cd[1], RestaurarDirectorio(cd[2], sis)>>
        ELSE _crear_directorio_actual(cd[2], partes[Len(partes)])

\* ComandoMKDIR._crear_directorio_en_ruta
_crear_directorio_en_ruta(sis, ruta_completa) ==
    LET ruta_normalizada == ReemplazarBarras(ruta_completa)
        partes == Split(ruta_normalizada, "/")
        nombre_directorio == IF Contiene(ruta_normalizada, "/") THEN partes[Len(partes)]
                             ELSE ruta_completa
        ruta_destino == IF Contiene(ruta_normalizada, "/")
                        THEN Join(SinUltimo(partes), <<"/">>)
                        ELSE <<>>
        cd == ComandoCD(sis, <<ruta_destino>>)
        creacion == _crear_directorio_actual(cd[2], nombre_directorio)
    IN  IF EmpiezaConError(cd[1]) THEN <<cd[1], RestaurarDirectorio(cd[2], sis)>>
        ELSE <<creacion[1], RestaurarDirectorio(creacion[2], sis)>>

\* ComandoMKDIR.ejecutar: <<the message returned, the sistema as it is left>>
ComandoMKDIR(sis, argumentos) ==
    IF argumentos = <<>> THEN <<"mkdir <ruta>", sis>>
    ELSE IF Contiene(argumentos[1], "/") \/ Contiene(argumentos[1], "\\")
    THEN _crear_directorio_en_ruta(sis, argumentos[1])
    ELSE _crear_directorio_actual(sis, argumentos[1])

\* ComandoTYPE._crear_archivo_actual
_crear_archivo_actual(sis, nombre_archivo, texto) ==
    IF ~_validar_nombre_archivo(nombre_archivo) THEN <<"Nombre de archivo invalido", sis>>
    ELSE IF BuscarEnContenido(sis.carpetas, sis.directorio_actual, nombre_archivo,
                              FALSE) # None
    THEN <<"Error: Ya existe un elemento", sis>>
    ELSE LET s1 == [sis EXCEPT !.carpetas =
                        AgregarElementoArchivo(@, sis.directorio_actual,
                                               Archivo(nombre_archivo, texto))]
             s2 == registrar_operacion(s1, <<"type ", nombre_archivo, texto>>)
         IN  <<"Archivo creado correctamente", respaldar_automatico(s2)>>

\* ComandoTYPE._crear_archivo_en_ruta
_crear_archivo_en_ruta(sis, ruta_completa, texto) ==
    LET ruta_normalizada == ReemplazarBarras(ruta_completa)
        partes == Split(ruta_normalizada, "/")
        nombre_archivo == IF Contiene(ruta_normalizada, "/") THEN partes[Len(partes)]
                          ELSE ruta_completa
        ruta_destino == IF Contiene(ruta_normalizada, "/")
                        THEN Join(SinUltimo(partes), <<"/">>)
                        ELSE <<>>
        cd == ComandoCD(sis, <<ruta_destino>>)
        creacion == _crear_archivo_actual(cd[2], nombre_archivo, texto)
    IN  IF EmpiezaConError(cd[1]) THEN <<cd[1], RestaurarDirectorio(cd[2], sis)>>
        ELSE <<creacion[1], RestaurarDirectorio(creacion[2], sis)>>

\* ComandoTYPE.ejecutar, the content being the second argument
ComandoTYPE(sis, argumentos) ==
    IF Len(argumentos) < 2 THEN <<"type <ruta_archivo> <contenido>", sis>>
    ELSE IF Contiene(argumentos[1], "/") \/ Contiene(argumentos[1], "\\")
    THEN _crear_archivo_en_ruta(sis, argumentos[1], argumentos[2])
    ELSE _crear_archivo_actual(sis, argumentos[1], argumentos[2])

RECURSIVE OrdenadosPorNombre(_)
\* sorted(elementos, key=lambda e: e.nombre.lower()) on the names: each name
\* goes after those that are not greater, so equal keys keep their order
OrdenadosPorNombre(nombres) ==
    IF nombres = <<>> THEN <<>>
    ELSE LET antes == OrdenadosPorNombre(SinUltimo(nombres))
             nombre == nombres[Len(nombres)]
         IN  InsertAt(antes,
                      1 + Cardinality({i \in 1..Len(antes) :
                                          ~StrLt(Lower(nombre), Lower(antes[i]))}),
                      nombre)

\* Carpeta.listar_elementos, by name: the subdirectories sorted, then the files
\* sorted
listar_elementos(cs, d) ==
    OrdenadosPorNombre([i \in 1..Len(cs[d].subcarpetas) |-> cs[cs[d].subcarpetas[i]].nombre])
    \o OrdenadosPorNombre([i \in 1..Len(archivos_en_orden(cs[d], "inorden")) |->
                              archivos_en_orden(cs[d], "inorden")[i].nombre])

\* ComandoDIR._listar_actual: <<"Directorio de", the sistema as it is left, the
\* path and the elements that the listing names>>
_listar_actual(sis) ==
    <<"Directorio de", registrar_operacion(sis, <<"dir">>), sis.ruta_actual,
      listar_elementos(sis.carpetas, sis.directorio_actual)>>

\* A _listar_ruta that stays in the directory it has listed
_listar_ruta_sin_restaurar(sis, ruta) ==
    LET cd == ComandoCD(sis, <<ruta>>)
    IN  IF EmpiezaConError(cd[1]) THEN <<cd[1], RestaurarDirectorio(cd[2], sis)>>
        ELSE _listar_actual(cd[2])

\* ComandoDIR._listar_ruta
_listar_ruta(sis, ruta) ==
    LET cd == ComandoCD(sis, <<ruta>>)
        listado == _listar_actual(cd[2])
    IN  IF EmpiezaConError(cd[1]) THEN <<cd[1], RestaurarDirectorio(cd[2], sis)>>
        ELSE <<listado[1], RestaurarDirectorio(listado[2], sis), listado[3], listado[4]>>

\* ComandoDIR.ejecutar
ComandoDIR(sis, argumentos) ==
    LET ruta == IF argumentos # <<>> THEN argumentos[1] ELSE <<>>
    IN  IF ruta # <<>> THEN _listar_ruta(sis, ruta) ELSE _listar_actual(sis)

\* ComandoLOG.ejecutar with the second loop left out
ComandoLOG_sin_rellenar(sis, argumentos) ==
    LET s1 == registrar_operacion(sis, <<"log">>)
        vaciada == VaciarPila(s1.historial_operaciones, <<>>, Pila)
    IN  <<"--- Historial de Operaciones (LIFO) ---",
          [s1 EXCEPT !.historial_operaciones = vaciada[1]],
          Reversed(vaciada[2])>>

\* ComandoLOG.ejecutar: <<the heading, the system as it is left, the lines listed>>
ComandoLOG(sis, argumentos) ==
    LET s1 == registrar_operacion(sis, <<"log">>)
        vaciada == VaciarPila(s1.historial_operaciones, <<>>, Pila)
    IN  <<"--- Historial de Operaciones (LIFO) ---",
          [s1 EXCEPT !.historial_operaciones = RellenarPila(vaciada[1], vaciada[3])],
          Reversed(vaciada[2])>>

\* c.isalpha()
EsLetra(c) ==
    \E i \in 1..Len(Mayusculas) : c = Mayusculas[i] \/ c = Minusculas[i]

\* The test of ComandoRMDIR.ejecutar for an argument that is a flag
EsFlag(arg) ==
    /\ StartsWith(arg, <<"/">>)
    /\ Len(arg) > 1
    /\ ~(Count(arg, ":") = 1 /\ EsLetra(arg[2]))

\* flags of ComandoRMDIR.ejecutar: the flag arguments in upper case
FlagsDe(argumentos) ==
    {Upper(argumentos[i]) : i \in {j \in 1..Len(argumentos) : EsFlag(argumentos[j])}}

\* objetivo of ComandoRMDIR.ejecutar: the last argument that is not a flag
ObjetivoDe(argumentos) ==
    LET otros == SelectSeq(argumentos, LAMBDA arg : ~EsFlag(arg))
    IN  IF otros = <<>> THEN <<>> ELSE otros[Len(otros)]

\* The directory the rmdir is in and every directory below it lose their
\* elements, in place of the directory it has found
EliminarElementoCarpeta_actual(cs, d, sub, vaciar) ==
    [c \in DOMAIN cs |->
        IF c = d /\ ~vaciar THEN eliminar_carpeta(cs[d], sub)[2]
        ELSE IF vaciar /\ c \in Descendientes(cs, d)
        THEN [cs[c] EXCEPT !.subcarpetas = <<>>, !.archivos_raiz = None]
        ELSE cs[c]]

\* ComandoRMDIR._vaciar_recursivamente (when vaciar): the directory and every
\* directory below it lose their elements; then directorio_actual.eliminar_elemento
\* detaches the directory from d.  The objects stay in the heap.
EliminarElementoCarpeta(cs, d, sub, vaciar) ==
    [c \in DOMAIN cs |->
        IF c = d THEN eliminar_carpeta(cs[d], sub)[2]
        ELSE IF vaciar /\ c \in Descendientes(cs, sub)
        THEN [cs[c] EXCEPT !.subcarpetas = <<>>, !.archivos_raiz = None]
        ELSE cs[c]]

\* An rmdir that with /S empties the directory it is in
\* (_vaciar_recursivamente(sistema.directorio_actual))
EliminarEnActual_vacia_la_actual(sis, carpeta_nombre, flags) ==
    LET carpeta_a_eliminar == BuscarEnContenido(sis.carpetas, sis.directorio_actual,
                                                carpeta_nombre, TRUE)
    IN  IF carpeta_a_eliminar = None THEN <<"Error: La carpeta no existe", sis>>
        ELSE IF ~esta_vacia(sis.carpetas[carpeta_a_eliminar.id]) /\ <<"/", "S">> \notin flags
        THEN <<"Error: La carpeta no esta vacia", sis>>
        ELSE LET s1 == [sis EXCEPT !.carpetas =
                            EliminarElementoCarpeta_actual(@, sis.directorio_actual,
                                                           carpeta_a_eliminar.id,
                                                           <<"/", "S">> \in flags)]
                 s2 == registrar_operacion(s1, <<"rmdir ", carpeta_a_eliminar.nombre>>)
             IN  <<"Carpeta eliminada exitosamente", respaldar_automatico(s2)>>

\* Lines 411-438 of ComandoRMDIR.ejecutar: find the directory in the current
\* directory, check that it is empty unless /S is given, remove it
EliminarEnActual(sis, carpeta_nombre, flags) ==
    LET carpeta_a_eliminar == BuscarEnContenido(sis.carpetas, sis.directorio_actual,
                                                carpeta_nombre, TRUE)
    IN  IF carpeta_a_eliminar = None THEN <<"Error: La carpeta no existe", sis>>
        ELSE IF ~esta_vacia(sis.carpetas[carpeta_a_eliminar.id]) /\ <<"/", "S">> \notin flags
        THEN <<"Error: La carpeta no esta vacia", sis>>
        ELSE LET s1 == [sis EXCEPT !.carpetas =
                            EliminarElementoCarpeta(@, sis.directorio_actual,
                                                    carpeta_a_eliminar.id,
                                                    <<"/", "S">> \in flags)]
                 s2 == registrar_operacion(s1, <<"rmdir ", carpeta_a_eliminar.nombre>>)
             IN  <<"Carpeta eliminada exitosamente", respaldar_automatico(s2)>>

\* ComandoRMDIR.ejecutar: <<the message returned, the sistema as it is left>>
ComandoRMDIR(sis, argumentos) ==
    LET flags == FlagsDe(argumentos)
        objetivo == ObjetivoDe(argumentos)
        ruta_dada == ReemplazarBarras(objetivo)
        con_ruta == \/ StartsWith(ruta_dada, sis.unidad_raiz)
                    \/ StartsWith(ruta_dada, <<"/">>)
                    \/ Contiene(ruta_dada, "/")
        ruta_obj == IF StartsWith(ruta_dada, <<"/">>)
                       /\ ~StartsWith(ruta_dada, sis.unidad_raiz)
                    THEN sis.unidad_raiz \o ruta_dada
                    ELSE ruta_dada
        partes == Split(ruta_obj, "/")
        ruta_destino == IF Len(partes) > 1 THEN Join(SinUltimo(partes), <<"/">>)
                        ELSE sis.unidad_raiz
        cd == ComandoCD(sis, <<ruta_destino>>)
        en_destino == EliminarEnActual(cd[2], partes[Len(partes)], flags)
    IN  IF argumentos = <<>> THEN <<"rmdir <nombre_carpeta> [/s] [/q]", sis>>
        ELSE IF objetivo = <<>>
        THEN <<"Error: Se requiere especificar un directorio", sis>>
        ELSE IF ~con_ruta THEN EliminarEnActual(sis, objetivo, flags)
        ELSE IF EmpiezaConError(cd[1]) THEN <<cd[1], cd[2]>>
        ELSE <<en_destino[1], RestaurarDirectorio(en_destino[2], sis)>>

-----------------------------------------------------------------------------
(* Bounds *)

\* The most entries the B-tree specification inserts
MaxEntradas == 6

\* The minimum degrees the B-tree specification tries
Grados == {2, 3}

\* The latest reading of the clock
MaxReloj == 2

\* The most files the directory specification keeps in its directory
MaxArchivosBST == 4

\* The file names the directory specification uses ("B" and "b" collide)
NombresBST == {<<"a">>, <<"B">>, <<"b">>, <<"c">>, <<"d">>}

\* The most elements the stack specification pushes on a stack
MaxPila == 3

\* The history lines the stack specification pushes
Lineas == {"mkdir a", "cd a", "dir"}

\* The line the store's histories record
LineasSistema == {"dir"}

\* The most directories, unit roots aside, the store specification creates
MaxCarpetas == 2

\* The most files the store specification keeps
MaxArchivos == 2

\* The most lines the store specification keeps on each history stack
MaxHistorial == 1

\* The most directories and files the snapshot specification keeps
MaxCarpetasRespaldo == 1

MaxArchivosRespaldo == 1

\* The most files the directory of the file specification holds
MaxArchivosCarpeta == 3

\* The names and the contents the file specification gives to its files
NombresArchivoCarpeta == {<<"a">>, <<"b">>, <<"B">>, <<"c">>}

TextosArchivo == {<<"x">>, <<"y">>}

\* The most subdirectories the directory of the subdirectory specification gets
MaxSubcarpetas == 2

\* The most directories and files the rebuild specification keeps
MaxCarpetasReconstruir == 1

MaxArchivosReconstruir == 2

\* Directories and files created in the specification of the documents read
MaxCarpetasLectura == 1

MaxArchivosLectura == 1

\* Directories created in the specification of the saved current path
MaxCarpetasRuta == 1

\* Directories created in the specification of the restored units
MaxCarpetasRestaurar == 2

\* The units of the store specification
UnidadesStore == <<<<"C">>>>

\* The units of the snapshot specification
UnidadesRespaldo == <<<<"C">>, <<"D", ":">>>>

\* The directory names of the store specification
NombresCarpeta == {<<"a">>, <<"a", "b">>}

\* The file names of the store specification
NombresArchivo == {<<"a", ".", "x">>, <<"x">>}

\* The texts of the store specification, with their UTF-8 lengths
Contenidos == {Contenido("hi", 2)}

\* The most directories (the root aside), files and history lines of the
\* command specification
MaxCarpetasComandos == 2

MaxArchivosComandos == 1

MaxHistorialComandos == 2

\* The arguments the command specification gives to cd, mkdir, type and rmdir
ArgumentosCD == {<<"a">>, <<".", ".">>, <<"C", ":">>, <<"x">>}

\* The paths the cd specification gives to cd: names, "..", and relative and
\* absolute paths with "..", with a directory, with a file or with an unknown
\* name among their components
RutasCD ==
    {<<"a">>, <<"x">>, <<".", ".">>, <<".", ".", "/", ".", ".">>,
     <<"C", ":", "/", ".", ".">>, <<"C", ":", "/", ".", ".", "/", "a">>,
     <<"a", "/", "x", "/", "b">>, <<"C", ":", "/", "x">>, <<"A", "/", "B">>}

\* The names and paths the creation specification gives to mkdir and to type:
\* the same name in both cases, for a directory and for a file, in the current
\* directory and through a path
ArgumentosCrearCarpeta ==
    {<<"a">>, <<"A">>, <<"a", ".", "x">>, <<"a", "/", "A">>, <<"A", "/", "a", ".", "x">>}

ArgumentosCrearArchivo == {<<"a", ".", "x">>, <<"A", ".", "X">>, <<"a", "/", "A", ".", "x">>}

\* The arguments the removal specification gives to mkdir, type and rmdir: a
\* directory, a subdirectory of it, and a file in each
ArgumentosMKDIRBorrar == {<<"a">>, <<"A", "/", "b">>}

ArgumentosTYPEBorrar == {<<"a", "/", "a", ".", "x">>, <<"a", "/", "b", "/", "a", ".", "x">>}

ArgumentosRMDIRBorrar == {<<"A">>, <<"a", "/", "b">>, <<"C", ":", "/", "a">>, <<"b">>}

\* The names and paths the name specification gives to mkdir and to type: good
\* names, the empty and the blank name, a name with each forbidden character,
\* file names without a dot, alone and after a directory that exists or not
NombresCarpetaProbados ==
    {<<"a">>, <<>>, <<" ">>, <<"a", "\\", "b">>,
     <<"a", ":">>, <<"*">>, <<"a", "?">>, <<"\"", "a">>, <<"<">>, <<"a", ">">>, <<"|">>,
     <<"a", "/">>, <<"a", "/", "b", "*">>, <<"x", "/", "?">>, <<"a", "\\", " ">>}

NombresArchivoProbados ==
    {<<"a", ".", "x">>, <<"a">>, <<>>,
     <<"a", "\\", "x">>, <<"a", ":", ".", "x">>, <<"*", ".", "x">>, <<"?", ".">>,
     <<".", "\"">>, <<"<", ".", "x">>, <<".", ">">>, <<"a", ".", "|">>,
     <<"a", "/", "x">>, <<"a", "/", "*", ".", "x">>, <<"x", "/", "a">>}

\* The arguments the root specification gives to mkdir, type and rmdir: a
\* directory, a directory called "..", a file of the root, and for rmdir the
\* unit's name in both cases, "..", "/", paths that end at the root and paths
\* to a directory
ArgumentosMKDIRRaiz == {<<"a">>, <<".", ".">>}

ArgumentosTYPERaiz == {<<"a", ".", "x">>}

ArgumentosRMDIRRaiz ==
    {<<"C", ":">>, <<"c", ":">>, <<".", ".">>, <<"/">>, <<"C", ":", "/">>,
     <<"C", ":", "/", ".", ".">>, <<"a", "/", ".", ".">>, <<"\\">>,
     <<"a">>, <<"C", ":", "/", "a">>}

\* The arguments the session specification gives to mkdir, type, rmdir and dir:
\* names, and relative and absolute paths to directories that exist or not
ArgumentosMKDIRSesion == {<<"a">>, <<"a", "/", "b">>, <<"x", "/", "b">>}

ArgumentosTYPESesion == {<<"a", "\\", "a", ".", "x">>, <<"x", "/", "a", ".", "x">>}

ArgumentosRMDIRSesion == {<<"C", ":", "/", "a">>, <<"a", "/", "b">>, <<"b">>}

ArgumentosDIR ==
    {<<>>, <<<<"a">>>>, <<<<"C", ":", "/", "a", "/", "b">>>>, <<<<"x", "/", "a">>>>,
     <<<<".", ".">>>>}

ArgumentosMKDIR ==
    {<<"a">>, <<"A">>, <<"b">>, <<"a", "/", "b">>, <<"x", "/", "b">>, <<"a", ":">>}

ArgumentosTYPE == {<<"a", ".", "x">>, <<"a", "/", "a", ".", "x">>, <<"x">>,
                   <<"x", "/", "a", ".", "x">>}

ArgumentosRMDIR == {<<"a">>, <<"a", "/", "b">>, <<"C", ":", "/", "a">>, <<"x", "/", "a">>}

FlagsRMDIR == {<<>>, <<<<"/", "s">>>>}

\* The most entries the size specification holds
MaxEntradasTamano == 2

\* The texts of the size specification, by their characters of one, two, three
\* and four bytes: the empty text and texts around one and two kilobytes
CuentasTamano ==
    {<<0, 0, 0, 0>>, <<1, 0, 0, 0>>, <<1023, 0, 0, 0>>, <<1024, 0, 0, 0>>,
     <<1025, 0, 0, 0>>, <<0, 512, 0, 0>>, <<1, 512, 0, 0>>, <<2, 0, 341, 0>>,
     <<0, 0, 0, 512>>, <<1, 0, 0, 512>>, <<0, 0, 683, 0>>}

\* The contents of the size specification: those texts, and no content
ContenidosTamano ==
    {Contenido(cuenta, LongitudUtf8(cuenta)) : cuenta \in CuentasTamano} \cup {None}

\* The most entries the index of the combined search specification holds
MaxEntradasCombinado == 4

\* The files the search specifications file: name, directory and bytes.  Two
\* names differ in case only, with different sizes and with the same size
ArchivosBusqueda ==
    {<<<<"a", "b">>, <<"C", ":">>, 2>>, <<<<"B">>, <<"C", ":">>, 1025>>,
     <<<<"b">>, <<"C", ":", "/", "d">>, 2>>, <<<<"b">>, <<"C", ":", "/", "a">>, 1025>>,
     <<<<"a">>, <<"C", ":">>, 2049>>, <<<<"c">>, <<"C", ":">>, 1024>>}

\* The fragments and the size bounds of the combined search: no fragment, the
\* empty one, one in upper case; no bound and a bound some entries meet
FragmentosCombinado == {<<>>, <<<<>>>>, <<<<"B">>>>}

CotasCombinado == {<<>>, <<2>>}

\* The most entries the index of the fragment search specification holds
MaxEntradasFragmento == 4

\* The files of the fragment search specification, two of them with names
\* that differ in case only, and the fragments it searches: the empty one, one
\* in upper case, one that two keys hold and one that no key holds
ArchivosFragmento ==
    {<<<<"a", "b">>, <<"C", ":">>, 2>>, <<<<"B">>, <<"C", ":">>, 2>>,
     <<<<"b">>, <<"C", ":", "/", "d">>, 2>>, <<<<"a">>, <<"C", ":">>, 2>>,
     <<<<"c">>, <<"C", ":">>, 2>>}

Fragmentos == {<<>>, <<"B">>, <<"a">>, <<"b", "a">>}

\* The most entries the index of the rename specification holds, and its
\* files: name, directory and bytes
MaxEntradasRenombrar == 3

ArchivosRenombrar ==
    {<<<<"a">>, <<"C", ":">>, 2>>, <<<<"B">>, <<"C", ":">>, 1025>>,
     <<<<"b">>, <<"C", ":", "/", "d">>, 2>>}

\* The most entries the index of the shape specification holds (with nine the
\* tree of minimum degree 2 gets its third level), the names of its files, the
\* names of those it removes or renames and the names it renames them to
MaxEntradasForma == 9

NombresForma ==
    {<<"a">>, <<"b">>, <<"c">>, <<"d">>, <<"e">>, <<"q">>, <<"s">>, <<"x">>, <<"y">>}

NombresViejosForma == {<<"b">>, <<"y">>}

NombresNuevosForma == {<<"a">>, <<"y", "y">>}

\* The most entries the index specification holds
MaxEntradasIndice == 3

\* The directory paths the index specification files entries under
RutasIndice == {<<"C", ":">>, <<"C", ":", "/", "a">>}

\* The file names the B-tree specification inserts
NombresBTree == {<<"a">>, <<"b">>, <<"c">>, <<"d">>, <<"e">>, <<"A">>}

-----------------------------------------------------------------------------
(* The B-tree alone: BTree(t) and a sequence of insertar calls *)

StoreQuiet ==
    UNCHANGED <<carpetas, unidades, unidad_actual, directorio_actual, ruta_actual,
                historial_operaciones, errores, reloj, respaldo>>

InitBTree ==
    /\ grado \in Grados
    /\ log_operaciones = TRUE
    /\ indice_global = BTreeNode(TRUE)
    /\ carpetas = <<>>
    /\ unidades = <<>>
    /\ unidad_actual = 0
    /\ directorio_actual = 0
    /\ ruta_actual = <<>>
    /\ historial_operaciones = <<>>
    /\ errores = <<>>
    /\ reloj = 0
    /\ respaldo = <<>>
    /\ resultado = <<>>

\* arbol.insertar(nombre.lower(), entrada), the entry being a file of that name
BTreeInsertar ==
    \E nombre \in NombresBTree :
        /\ Len(recorrer(indice_global)) < MaxEntradas
        /\ indice_global' = insertar(indice_global, Lower(nombre),
                              ArchivoIndexEntry(nombre, <<"C", ":", "/">> \o nombre, 1, 0, 0, <<>>))
        /\ resultado' = <<"insertar", nombre>>
        /\ UNCHANGED <<grado, log_operaciones>>
        /\ StoreQuiet

NextBTree == BTreeInsertar

SpecBTree == InitBTree /\ [][NextBTree]_vars

-----------------------------------------------------------------------------
(* The index facade on its own: any sequence of IndiceGlobalArchivos calls *)

\* The path of a file of that name in that directory
RutaDe(carpeta, nombre) == carpeta \o <<"/">> \o nombre

IndiceQuiet == UNCHANGED <<grado, log_operaciones>> /\ StoreQuiet

\* indice.insertar_archivo(archivo, ruta_completa)
IndiceInsertarArchivo ==
    \E carpeta \in RutasIndice, nombre \in NombresArchivo, contenido \in Contenidos :
        /\ Len(recorrer(indice_global)) < MaxEntradasIndice
        /\ indice_global' = insertar_archivo(indice_global, Archivo(nombre, contenido),
                                             RutaDe(carpeta, nombre))
        /\ resultado' = <<"insertar_archivo", RutaDe(carpeta, nombre)>>
        /\ IndiceQuiet

\* indice.eliminar_por_ruta(ruta_completa)
IndiceEliminarPorRuta ==
    \E carpeta \in RutasIndice, nombre \in NombresArchivo :
        /\ indice_global' = eliminar_por_ruta(indice_global, RutaDe(carpeta, nombre))[2]
        /\ resultado' = <<"eliminar_por_ruta",
                          eliminar_por_ruta(indice_global, RutaDe(carpeta, nombre))[1],
                          RutaDe(carpeta, nombre)>>
        /\ IndiceQuiet

\* indice.eliminar_por_prefijo(prefijo)
IndiceEliminarPorPrefijo ==
    \E prefijo \in RutasIndice :
        /\ indice_global' = eliminar_por_prefijo(indice_global, prefijo)[2]
        /\ resultado' = <<"eliminar_por_prefijo",
                          eliminar_por_prefijo(indice_global, prefijo)[1], prefijo>>
        /\ IndiceQuiet

\* indice.renombrar_ruta(ruta_anterior, nombre_nuevo, ruta_nueva)
IndiceRenombrarRuta ==
    \E carpeta \in RutasIndice, nombre \in NombresArchivo, nuevo \in NombresArchivo :
        LET r == renombrar_ruta(indice_global, RutaDe(carpeta, nombre), nuevo,
                                RutaDe(carpeta, nuevo))
        IN  /\ indice_global' = r[2]
            /\ resultado' = <<"renombrar_ruta", r[1]>>
            /\ IndiceQuiet

\* indice.deserializar(datos), datos being what indice.serializar() wrote
IndiceDeserializar ==
    /\ indice_global' = deserializar(serializar(indice_global))
    /\ resultado' = <<"deserializar", Len(serializar(indice_global))>>
    /\ IndiceQuiet

InitIndice ==
    /\ grado = 2
    /\ log_operaciones = TRUE
    /\ indice_global = BTreeNode(TRUE)
    /\ carpetas = <<>>
    /\ unidades = <<>>
    /\ unidad_actual = 0
    /\ directorio_actual = 0
    /\ ruta_actual = <<>>
    /\ historial_operaciones = <<>>
    /\ errores = <<>>
    /\ reloj = 0
    /\ respaldo = <<>>
    /\ resultado = <<>>

NextIndice ==
    \/ IndiceInsertarArchivo
    \/ IndiceEliminarPorRuta
    \/ IndiceEliminarPorPrefijo
    \/ IndiceRenombrarRuta
    \/ IndiceDeserializar

SpecIndice == InitIndice /\ [][NextIndice]_vars

-----------------------------------------------------------------------------
(* The sizes of the index: insertar_archivo with contents of every length *)

\* indice.insertar_archivo(Archivo(nombre, contenido), ruta_completa)
IndiceInsertarTamano ==
    \E nombre \in NombresArchivo, contenido \in ContenidosTamano :
        /\ Len(recorrer(indice_global)) < MaxEntradasTamano
        /\ indice_global' = insertar_archivo(indice_global, Archivo(nombre, contenido),
                                             RutaDe(<<"C", ":">>, nombre))
        /\ resultado' = <<"insertar_archivo", nombre, contenido>>
        /\ IndiceQuiet

NextTamano == IndiceInsertarTamano

SpecTamano == InitIndice /\ [][NextTamano]_vars

-----------------------------------------------------------------------------
(* The combined search: insertar_archivo and buscar_combinado *)

\* indice.insertar_archivo(archivo, ruta_completa), for one of the files of the
\* search specifications
InsertarArchivoBusqueda(f) ==
    insertar_archivo(indice_global, Archivo(f[1], Contenido("texto", f[3])),
                     RutaDe(f[2], f[1]))

IndiceInsertarCombinado ==
    \E f \in ArchivosBusqueda :
        /\ Len(recorrer(indice_global)) < MaxEntradasCombinado
        /\ indice_global' = InsertarArchivoBusqueda(f)
        /\ resultado' = <<"insertar_archivo", RutaDe(f[2], f[1])>>
        /\ IndiceQuiet

\* indice.buscar_combinado(fragmento, minimo_kb, maximo_kb)
IndiceBuscarCombinado ==
    \E fragmento \in FragmentosCombinado, minimo_kb \in CotasCombinado,
       maximo_kb \in CotasCombinado :
        /\ resultado' = <<"buscar_combinado", fragmento, minimo_kb, maximo_kb,
                          buscar_combinado(indice_global, fragmento, minimo_kb, maximo_kb)>>
        /\ UNCHANGED indice_global
        /\ IndiceQuiet

NextCombinado == IndiceInsertarCombinado \/ IndiceBuscarCombinado

SpecCombinado == InitIndice /\ [][NextCombinado]_vars

-----------------------------------------------------------------------------
(* The fragment search: buscar_parcial after the mutations of the index *)

IndiceInsertarFragmento ==
    \E f \in ArchivosFragmento :
        /\ Len(recorrer(indice_global)) < MaxEntradasFragmento
        /\ indice_global' = InsertarArchivoBusqueda(f)
        /\ resultado' = <<"insertar_archivo", RutaDe(f[2], f[1])>>
        /\ IndiceQuiet

\* indice.eliminar_por_ruta(ruta_completa)
IndiceEliminarFragmento ==
    \E f \in ArchivosFragmento :
        /\ indice_global' = eliminar_por_ruta(indice_global, RutaDe(f[2], f[1]))[2]
        /\ resultado' = <<"eliminar_por_ruta", RutaDe(f[2], f[1])>>
        /\ IndiceQuiet

\* indice.renombrar_ruta(ruta_anterior, nombre_nuevo, ruta_nueva)
IndiceRenombrarFragmento ==
    \E f \in ArchivosFragmento, g \in ArchivosFragmento :
        /\ indice_global' = renombrar_ruta(indice_global, RutaDe(f[2], f[1]), g[1],
                                           RutaDe(g[2], g[1]))[2]
        /\ resultado' = <<"renombrar_ruta", RutaDe(f[2], f[1]), RutaDe(g[2], g[1])>>
        /\ IndiceQuiet

\* indice.buscar_parcial(fragmento)
IndiceBuscarParcial ==
    \E fragmento \in Fragmentos :
        /\ resultado' = <<"buscar_parcial", fragmento,
                          buscar_parcial(indice_global, fragmento)>>
        /\ UNCHANGED indice_global
        /\ IndiceQuiet

NextFragmento ==
    \/ IndiceInsertarFragmento
    \/ IndiceEliminarFragmento
    \/ IndiceRenombrarFragmento
    \/ IndiceBuscarParcial

SpecFragmento == InitIndice /\ [][NextFragmento]_vars

-----------------------------------------------------------------------------
(* The shape of the tree of the index: insertions, removals and renames *)

\* indice.insertar_archivo(Archivo(nombre, "hi"), "C:/" + nombre), of a file
\* whose path the index does not hold
IndiceInsertarForma ==
    \E nombre \in NombresForma, contenido \in Contenidos :
        /\ Len(recorrer(indice_global)) < MaxEntradasForma
        /\ \A i \in 1..Len(recorrer(indice_global)) :
               recorrer(indice_global)[i].ruta_completa # RutaDe(<<"C", ":">>, nombre)
        /\ indice_global' = insertar_archivo(indice_global, Archivo(nombre, contenido),
                                             RutaDe(<<"C", ":">>, nombre))
        /\ resultado' = <<"insertar_archivo">>
        /\ IndiceQuiet

\* indice.eliminar_por_ruta("C:/" + nombre)
IndiceEliminarForma ==
    \E nombre \in NombresViejosForma :
        /\ indice_global' = eliminar_por_ruta(indice_global, RutaDe(<<"C", ":">>, nombre))[2]
        /\ resultado' = <<"eliminar_por_ruta">>
        /\ IndiceQuiet

\* indice.renombrar_ruta("C:/" + nombre, nombre_nuevo, "C:/" + nombre_nuevo)
IndiceRenombrarForma ==
    \E nombre \in NombresViejosForma, nombre_nuevo \in NombresNuevosForma :
        /\ indice_global' = renombrar_ruta(indice_global, RutaDe(<<"C", ":">>, nombre),
                                           nombre_nuevo,
                                           RutaDe(<<"C", ":">>, nombre_nuevo))[2]
        /\ resultado' = <<"renombrar_ruta">>
        /\ IndiceQuiet

NextForma ==
    \/ IndiceInsertarForma
    \/ IndiceEliminarForma
    \/ IndiceRenombrarForma

SpecForma == InitIndice /\ [][NextForma]_vars

-----------------------------------------------------------------------------
(* The renames of the index: renombrar_ruta on entries of several sizes *)

IndiceInsertarRenombrar ==
    \E f \in ArchivosRenombrar :
        /\ Len(recorrer(indice_global)) < MaxEntradasRenombrar
        /\ indice_global' = InsertarArchivoBusqueda(f)
        /\ resultado' = <<"insertar_archivo", RutaDe(f[2], f[1])>>
        /\ IndiceQuiet

\* indice.renombrar_ruta(ruta_anterior, nombre_nuevo, ruta_nueva): what was
\* asked and what it returned
IndiceRenombrarArchivo ==
    \E f \in ArchivosRenombrar, g \in ArchivosRenombrar :
        /\ indice_global' = renombrar_ruta(indice_global, RutaDe(f[2], f[1]), g[1],
                                           RutaDe(g[2], g[1]))[2]
        /\ resultado' = <<"renombrar_ruta", RutaDe(f[2], f[1]), g[1], RutaDe(g[2], g[1]),
                          renombrar_ruta(indice_global, RutaDe(f[2], f[1]), g[1],
                                         RutaDe(g[2], g[1]))[1]>>
        /\ IndiceQuiet

NextRenombrar == IndiceInsertarRenombrar \/ IndiceRenombrarArchivo

SpecRenombrar == InitIndice /\ [][NextRenombrar]_vars

-----------------------------------------------------------------------------
(* The serialization of the index: serializar and deserializar *)

\* The record serializar writes for a file of the fragment search specification
RegistroDe(f) ==
    to_dict(ArchivoIndexEntry(f[1], RutaDe(f[2], f[1]), 1, 0, 0, _obtener_extension(f[1])))

\* The record lists the serialization specification hands to deserializar: the
\* empty list, every list of one and of two records, repeated ones included,
\* and one of four records in descending order of their names
RegistrosDeserializar ==
    {<<>>}
    \cup {<<RegistroDe(f)>> : f \in ArchivosFragmento}
    \cup {<<RegistroDe(f), RegistroDe(g)>> : f, g \in ArchivosFragmento}
    \cup {<<RegistroDe(<<<<"c">>, <<"C", ":">>, 2>>), RegistroDe(<<<<"B">>, <<"C", ":">>, 2>>),
            RegistroDe(<<<<"a", "b">>, <<"C", ":">>, 2>>),
            RegistroDe(<<<<"a">>, <<"C", ":">>, 2>>)>>}

\* indice.serializar()
IndiceSerializar ==
    /\ resultado' = <<"serializar", serializar(indice_global)>>
    /\ UNCHANGED indice_global
    /\ IndiceQuiet

\* indice.deserializar(datos), for a list of records or for what
\* indice.serializar() returns
IndiceDeserializarRegistros ==
    \E datos \in RegistrosDeserializar \cup {serializar(indice_global)} :
        /\ indice_global' = deserializar(datos)
        /\ resultado' = <<"deserializar", datos>>
        /\ IndiceQuiet

NextSerializar ==
    \/ IndiceInsertarFragmento
    \/ IndiceSerializar
    \/ IndiceDeserializarRegistros

SpecSerializar == InitIndice /\ [][NextSerializar]_vars

-----------------------------------------------------------------------------
(* One directory alone: agregar_archivo and eliminar_archivo on its BST *)

InitBST ==
    /\ grado = 2
    /\ log_operaciones = TRUE
    /\ indice_global = BTreeNode(TRUE)
    /\ reloj = 0
    /\ carpetas = <<[nombre |-> <<"C", ":">>, fecha_creacion |-> 0, fecha_modificacion |-> 0,
                     subcarpetas |-> <<>>, archivos_raiz |-> None, padre |-> Nulo]>>
    /\ unidades = <<>>
    /\ unidad_actual = 0
    /\ directorio_actual = 1
    /\ ruta_actual = <<>>
    /\ historial_operaciones = <<>>
    /\ errores = <<>>
    /\ respaldo = <<>>
    /\ resultado = <<>>

BSTQuiet ==
    UNCHANGED <<grado, log_operaciones, indice_global, unidades, unidad_actual, directorio_actual,
                ruta_actual, historial_operaciones, errores, respaldo>>

\* The clock advances between two operations
Tic ==
    /\ reloj < MaxReloj
    /\ reloj' = reloj + 1
    /\ UNCHANGED <<grado, log_operaciones, indice_global, carpetas, unidades, unidad_actual,
                   directorio_actual, ruta_actual, historial_operaciones, errores,
                   respaldo, resultado>>

\* carpeta.agregar_archivo(Archivo(nombre, contenido))
BSTAgregar ==
    \E nombre \in NombresBST :
        LET r == agregar_archivo(carpetas[1], Archivo(nombre, <<"x">>))
        IN  /\ Len(archivos_en_orden(carpetas[1], "inorden")) < MaxArchivosBST
            /\ carpetas' = [carpetas EXCEPT ![1] = r[2]]
            /\ resultado' = <<"agregar_archivo", nombre, r[1]>>
            /\ UNCHANGED reloj
            /\ BSTQuiet

\* carpeta.eliminar_archivo(nombre)
BSTEliminar ==
    \E nombre \in NombresBST :
        LET r == eliminar_archivo(carpetas[1], nombre)
        IN  /\ carpetas' = [carpetas EXCEPT ![1] = r[2]]
            /\ resultado' = <<"eliminar_archivo", nombre, r[1]>>
            /\ UNCHANGED reloj
            /\ BSTQuiet

\* carpeta.agregar_carpeta(Carpeta(nombre, padre=carpeta)), which returns nothing
CarpetaAgregarCarpeta ==
    \E nombre \in NombresBST :
        LET id == NuevoId(carpetas)
        IN  /\ Len(carpetas[1].subcarpetas) < MaxSubcarpetas
            /\ carpetas' = (id :> Carpeta(nombre, 1))
                             @@ [carpetas EXCEPT ![1] = agregar_carpeta(@, id)]
            /\ resultado' = <<"agregar_carpeta", nombre, id>>
            /\ UNCHANGED reloj
            /\ BSTQuiet

NextBST == Tic \/ BSTAgregar \/ BSTEliminar

SpecBST == InitBST /\ [][NextBST]_vars

\* carpeta.agregar_archivo(Archivo(nombre, contenido)): what it was given and
\* what it returned
CarpetaAgregarArchivo ==
    \E nombre \in NombresArchivoCarpeta, contenido \in TextosArchivo :
        /\ Len(archivos_en_orden(carpetas[1], "inorden")) < MaxArchivosCarpeta
        /\ carpetas' = [carpetas EXCEPT
                           ![1] = agregar_archivo(@, Archivo(nombre, contenido))[2]]
        /\ resultado' = <<"agregar_archivo", nombre,
                          agregar_archivo(carpetas[1], Archivo(nombre, contenido))[1],
                          contenido>>
        /\ UNCHANGED reloj
        /\ BSTQuiet

\* The node of that name has a left and a right child
TieneDosHijos(nodo) == nodo # None /\ nodo.izq # None /\ nodo.der # None

\* carpeta.eliminar_archivo(nombre): what it was given, what it returned, and
\* whether the node of that name had two children
CarpetaEliminarArchivo ==
    \E nombre \in NombresArchivoCarpeta :
        /\ carpetas' = [carpetas EXCEPT ![1] = eliminar_archivo(@, nombre)[2]]
        /\ resultado' = <<"eliminar_archivo", nombre,
                          eliminar_archivo(carpetas[1], nombre)[1],
                          TieneDosHijos(_buscar_nodo_archivo(carpetas[1].archivos_raiz,
                                                             Lower(nombre)))>>
        /\ UNCHANGED reloj
        /\ BSTQuiet

\* One directory alone: files of several contents added and removed over time
NextArchivos == Tic \/ CarpetaAgregarArchivo \/ CarpetaEliminarArchivo

SpecArchivos == InitBST /\ [][NextArchivos]_vars

\* One directory alone: its files and its subdirectories
NextSubcarpetas == BSTAgregar \/ CarpetaAgregarCarpeta

SpecSubcarpetas == InitBST /\ [][NextSubcarpetas]_vars

-----------------------------------------------------------------------------
(* The history stacks alone: push, pop, and the codec of a snapshot *)

InitPila ==
    /\ grado = 2
    /\ log_operaciones = TRUE
    /\ indice_global = BTreeNode(TRUE)
    /\ reloj = 0
    /\ carpetas = <<>>
    /\ unidades = <<>>
    /\ unidad_actual = 0
    /\ directorio_actual = 0
    /\ ruta_actual = <<>>
    /\ historial_operaciones = Pila
    /\ errores = Pila
    /\ respaldo = <<>>
    /\ resultado = <<>>

PilaQuiet ==
    UNCHANGED <<grado, log_operaciones, indice_global, reloj, carpetas, unidades, unidad_actual,
                directorio_actual, ruta_actual, respaldo>>

\* historial_operaciones.apilar(linea)
PilaApilar ==
    \E linea \in Lineas :
        /\ historial_operaciones.longitud < MaxPila
        /\ historial_operaciones' = apilar(historial_operaciones, linea)
        /\ resultado' = <<"apilar", linea>>
        /\ UNCHANGED errores
        /\ PilaQuiet

\* historial_operaciones.desapilar()
PilaDesapilar ==
    /\ historial_operaciones' = desapilar(historial_operaciones)[2]
    /\ resultado' = <<"desapilar", desapilar(historial_operaciones)[1]>>
    /\ UNCHANGED errores
    /\ PilaQuiet

\* _serializar_pila(historial_operaciones): the list goes to the document
PilaSerializar ==
    /\ historial_operaciones' = _serializar_pila(historial_operaciones)[2]
    /\ resultado' = <<"serializar", _serializar_pila(historial_operaciones)[1]>>
    /\ UNCHANGED errores
    /\ PilaQuiet

\* errores = _deserializar_pila(the list just serialized)
PilaDeserializar ==
    /\ Len(resultado) = 2
    /\ resultado[1] = "serializar"
    /\ errores' = _deserializar_pila(resultado[2])
    /\ resultado' = <<"deserializar", resultado[2]>>
    /\ UNCHANGED historial_operaciones
    /\ PilaQuiet

NextPila ==
    \/ PilaApilar
    \/ PilaDesapilar
    \/ PilaSerializar
    \/ PilaDeserializar

SpecPila == InitPila /\ [][NextPila]_vars

-----------------------------------------------------------------------------
(* The store: units, directory trees, files, the global index, the histories
   and the latest snapshot *)

\* The store after construction: its units, each an empty root directory
InitSistema(nombres) ==
    /\ grado = 2
    /\ indice_global = BTreeNode(TRUE)
    /\ reloj = 0
    /\ carpetas = [u \in 1..Len(nombres) |->
                      [Carpeta(NombreUnidad(nombres[u]), Nulo) EXCEPT
                          !.fecha_creacion = 0, !.fecha_modificacion = 0]]
    /\ unidades = [u \in 1..Len(nombres) |-> UnidadAlmacenamiento(nombres[u], u)]
    /\ unidad_actual = 1
    /\ directorio_actual = 1
    /\ ruta_actual = NombreUnidad(nombres[1])
    /\ historial_operaciones = Pila
    /\ errores = Pila
    /\ respaldo = SinRespaldo
    /\ resultado = <<>>

InitStore == log_operaciones = TRUE /\ InitSistema(UnidadesStore)

InitRespaldo == log_operaciones = TRUE /\ InitSistema(UnidadesRespaldo)

\* The number of files of the store
NumArchivos == Len(ArchivosDelSistema(unidades, carpetas))

\* An operation that fails: it returns its error and touches nothing
Falla(operacion, error) ==
    /\ resultado' = <<operacion, error>>
    /\ UNCHANGED <<grado, log_operaciones, indice_global, carpetas, unidades, unidad_actual,
                   directorio_actual, ruta_actual, historial_operaciones, errores,
                   reloj, respaldo>>

\* A mutation that succeeds: the new heap and index, then respaldar_automatico
Muta(operacion, cs, raiz_indice) ==
    /\ carpetas' = cs
    /\ indice_global' = raiz_indice
    /\ respaldo' = Documento(unidades, cs, unidad_actual, ruta_actual,
                             historial_operaciones, errores, raiz_indice)
    /\ resultado' = <<operacion, "ok">>
    /\ UNCHANGED <<grado, log_operaciones, unidades, unidad_actual, directorio_actual, ruta_actual,
                   historial_operaciones, errores, reloj>>

\* Create a directory: add_subdirectory of a new Carpeta
CrearCarpeta(max) ==
    \E d \in DOMAIN carpetas, nombre \in NombresCarpeta :
        IF NombreEnUso(carpetas, d, nombre) THEN Falla("crear_carpeta", "NameConflict")
        ELSE /\ Cardinality(DOMAIN carpetas) < Len(unidades) + max
             /\ LET id == NuevoId(carpetas)
                IN  Muta("crear_carpeta",
                         (id :> Carpeta(nombre, d))
                             @@ [carpetas EXCEPT ![d] = agregar_carpeta(@, id)],
                         indice_global)

\* Create a file: insert_file, then one index entry at the file's path
CrearArchivo(max) ==
    \E d \in DOMAIN carpetas, nombre \in NombresArchivo, contenido \in Contenidos :
        IF NombreEnUso(carpetas, d, nombre) THEN Falla("crear_archivo", "NameConflict")
        ELSE /\ NumArchivos < max
             /\ LET archivo == Archivo(nombre, contenido)
                IN  Muta("crear_archivo",
                         [carpetas EXCEPT ![d] = agregar_archivo(@, archivo)[2]],
                         insertar_archivo(indice_global, archivo,
                             ruta_absoluta(carpetas, d) \o <<"/">> \o nombre))

\* Delete a file: remove_file, then remove the index entry of its path
EliminarArchivo ==
    \E d \in DOMAIN carpetas, nombre \in NombresArchivo :
        LET archivo == buscar_archivo(carpetas[d], nombre)
        IN  IF archivo = None THEN Falla("eliminar_archivo", "NotFound")
            ELSE Muta("eliminar_archivo",
                      [carpetas EXCEPT ![d] = eliminar_archivo(@, nombre)[2]],
                      eliminar_por_ruta(indice_global,
                          ruta_absoluta(carpetas, d) \o <<"/">> \o archivo.nombre)[2])

\* Rename a file within its directory: the BST is re-keyed, the index entry renamed
RenombrarArchivo ==
    \E d \in DOMAIN carpetas, nombre \in NombresArchivo, nuevo \in NombresArchivo :
        LET archivo == buscar_archivo(carpetas[d], nombre)
            renombrado == [archivo EXCEPT !.nombre = nuevo,
                                          !.extension = _obtener_extension(nuevo),
                                          !.fecha_modificacion = Ahora]
            base == ruta_absoluta(carpetas, d) \o <<"/">>
        IN  IF archivo = None THEN Falla("renombrar_archivo", "NotFound")
            ELSE IF NombreEnUso(carpetas, d, nuevo)
            THEN Falla("renombrar_archivo", "NameConflict")
            ELSE Muta("renombrar_archivo",
                      [carpetas EXCEPT ![d] =
                          agregar_archivo(eliminar_archivo(@, nombre)[2], renombrado)[2]],
                      renombrar_ruta(indice_global, base \o archivo.nombre, nuevo,
                                     base \o nuevo)[2])

\* Delete a directory, empty or (recursivo) with all it holds: on a recursive
\* delete the index entries that start with its path are removed, then it is
\* detached from its parent
EliminarCarpeta ==
    \E sub \in DOMAIN carpetas, recursivo \in BOOLEAN :
        /\ carpetas[sub].padre # Nulo
        /\ directorio_actual \notin Descendientes(carpetas, sub)
        /\ IF ~recursivo /\ ~esta_vacia(carpetas[sub])
           THEN Falla("eliminar_carpeta", "NotEmpty")
           ELSE LET d == carpetas[sub].padre
                    quedan == DOMAIN carpetas \ Descendientes(carpetas, sub)
                IN  Muta("eliminar_carpeta",
                         [c \in quedan |->
                             IF c = d THEN eliminar_carpeta(carpetas[d], sub)[2]
                             ELSE carpetas[c]],
                         IF recursivo
                         THEN eliminar_por_prefijo(indice_global,
                                                   ruta_absoluta(carpetas, sub))[2]
                         ELSE indice_global)

\* Rename a directory: the entries under the old path are removed and every
\* file now under the new path is inserted again
RenombrarCarpeta ==
    \E sub \in DOMAIN carpetas, nuevo \in NombresCarpeta :
        /\ carpetas[sub].padre # Nulo
        /\ IF NombreEnUso(carpetas, carpetas[sub].padre, nuevo)
           THEN Falla("renombrar_carpeta", "NameConflict")
           ELSE LET cs == [carpetas EXCEPT
                              ![sub] = actualizar_modificacion([@ EXCEPT !.nombre = nuevo])]
                    sin == eliminar_por_prefijo(indice_global,
                                                ruta_absoluta(carpetas, sub))[2]
                IN  Muta("renombrar_carpeta", cs,
                         InsertarArchivos(sin, ArchivosBajo(cs, sub)))

\* Change the current directory (no snapshot is taken)
CambiarDirectorio ==
    \E d \in DOMAIN carpetas :
        /\ d # directorio_actual
        /\ directorio_actual' = d
        /\ unidad_actual' = UnidadDe(unidades, carpetas, d)
        /\ ruta_actual' = ruta_absoluta(carpetas, d)
        /\ resultado' = <<"cambiar_directorio", "ok">>
        /\ UNCHANGED <<grado, log_operaciones, indice_global, carpetas, unidades, historial_operaciones,
                       errores, reloj, respaldo>>

\* SistemaArchivos.registrar_operacion
RegistrarOperacion ==
    \E linea \in LineasSistema :
        /\ historial_operaciones.longitud < MaxHistorial
        /\ historial_operaciones' = apilar(historial_operaciones, <<Ahora, linea>>)
        /\ resultado' = <<"registrar_operacion", "ok">>
        /\ UNCHANGED <<grado, log_operaciones, indice_global, carpetas, unidades, unidad_actual,
                       directorio_actual, ruta_actual, errores, reloj, respaldo>>

\* SistemaArchivos.registrar_error
RegistrarError ==
    \E linea \in LineasSistema :
        /\ errores.longitud < MaxHistorial
        /\ errores' = apilar(errores, <<Ahora, linea>>)
        /\ resultado' = <<"registrar_error", "ok">>
        /\ UNCHANGED <<grado, log_operaciones, indice_global, carpetas, unidades, unidad_actual,
                       directorio_actual, ruta_actual, historial_operaciones, reloj,
                       respaldo>>

\* rebuild_index_from_tree
ReconstruirIndice ==
    /\ indice_global' = reconstruir_indice_global(unidades, carpetas)
    /\ resultado' = <<"reconstruir_indice", "ok">>
    /\ UNCHANGED <<grado, log_operaciones, carpetas, unidades, unidad_actual, directorio_actual,
                   ruta_actual, historial_operaciones, errores, reloj, respaldo>>

\* GestorRespaldos.respaldar_automatico
Respaldar ==
    /\ respaldo' = Documento(unidades, carpetas, unidad_actual, ruta_actual,
                             historial_operaciones, errores, indice_global)
    /\ historial_operaciones' = _serializar_pila(historial_operaciones)[2]
    /\ errores' = _serializar_pila(errores)[2]
    /\ resultado' = <<"respaldar", "ok">>
    /\ UNCHANGED <<grado, log_operaciones, indice_global, carpetas, unidades, unidad_actual,
                   directorio_actual, ruta_actual, reloj>>

\* The ways the latest backup file can be damaged when it is read: the history
\* list, the error list, a unit or a directory of the unit list, or the i-th
\* index record is no longer what the codec expects
Danos(datos) ==
    {<<"historial_operaciones">>, <<"errores">>, <<"unidades">>}
    \cup {<<"indice_global", i>> : i \in 1..Len(datos.indice_global)}

\* The state after cargar_ultimo_respaldo returned r: what it returned and the
\* sistema as it left it
Cargado(r) ==
    /\ historial_operaciones' = r[2].historial_operaciones
    /\ errores' = r[2].errores
    /\ unidades' = r[2].unidades
    /\ carpetas' = r[2].carpetas
    /\ unidad_actual' = r[2].unidad_actual
    /\ directorio_actual' = r[2].directorio_actual
    /\ ruta_actual' = r[2].ruta_actual
    /\ indice_global' = r[2].indice_global
    /\ resultado' = <<"cargar_ultimo_respaldo", IF r[1] THEN "ok" ELSE "False">>
    /\ UNCHANGED <<grado, log_operaciones, reloj, respaldo>>

\* A record of a serialized index for a file that is in none of the units
RegistroObsoleto ==
    to_dict(ArchivoIndexEntry(<<"q">>, <<"C", ":", "/", "q">>, 1, 0, 0, <<>>))

\* The documents cargar_ultimo_respaldo can find where datos was written: datos
\* itself, datos without its index field, datos with the index of another tree,
\* and datos with a current path that names no directory of its units
Lecturas(datos) ==
    {<<"escrito", datos>>,
     <<"sin_indice", [datos EXCEPT !.indice_global = <<>>]>>,
     <<"indice_obsoleto", [datos EXCEPT !.indice_global = <<RegistroObsoleto>>]>>,
     <<"ruta_perdida", [datos EXCEPT !.ruta_actual = @ \o <<"/", "q">>]>>}

\* The state after cargar_ultimo_respaldo returned r for the document lectura
Leido(lectura, r) ==
    /\ historial_operaciones' = r[2].historial_operaciones
    /\ errores' = r[2].errores
    /\ unidades' = r[2].unidades
    /\ carpetas' = r[2].carpetas
    /\ unidad_actual' = r[2].unidad_actual
    /\ directorio_actual' = r[2].directorio_actual
    /\ ruta_actual' = r[2].ruta_actual
    /\ indice_global' = r[2].indice_global
    /\ resultado' = <<"cargar_ultimo_respaldo", IF r[1] THEN "ok" ELSE "False", lectura>>
    /\ UNCHANGED <<grado, log_operaciones, reloj, respaldo>>

\* GestorRespaldos.cargar_ultimo_respaldo of one of the documents that can be
\* found in place of the latest backup file
LeerRespaldo ==
    /\ respaldo # SinRespaldo
    /\ \E lectura \in Lecturas(respaldo) :
        Leido(lectura[1],
              cargar_ultimo_respaldo(
                  Sistema(historial_operaciones, errores, unidades, carpetas,
                          unidad_actual, directorio_actual, ruta_actual,
                          indice_global),
                  lectura[2]))

\* The documents with units and without that cargar_ultimo_respaldo can find
\* where datos was written: datos itself, datos under the name of a unit that
\* is not in it, datos with a current path that names no directory, both, and
\* datos without its units
LecturasUnidad(datos) ==
    {<<"escrito", datos>>,
     <<"unidad_desconocida", [datos EXCEPT !.unidad_actual = <<"Z", ":">>]>>,
     <<"ruta_perdida", [datos EXCEPT !.ruta_actual = @ \o <<"/", "q">>]>>,
     <<"unidad_desconocida_ruta_perdida",
       [datos EXCEPT !.unidad_actual = <<"Z", ":">>, !.ruta_actual = @ \o <<"/", "q">>]>>,
     <<"sin_unidades", [datos EXCEPT !.unidades = <<>>]>>}

\* GestorRespaldos.cargar_ultimo_respaldo of one of these documents
LeerUnidades ==
    /\ respaldo # SinRespaldo
    /\ \E lectura \in LecturasUnidad(respaldo) :
        Leido(lectura[1],
              cargar_ultimo_respaldo(
                  Sistema(historial_operaciones, errores, unidades, carpetas,
                          unidad_actual, directorio_actual, ruta_actual,
                          indice_global),
                  lectura[2]))

\* GestorRespaldos.cargar_ultimo_respaldo of the latest backup file, read as it
\* was written or (con_danos) damaged
CargarUltimoRespaldo(con_danos) ==
    /\ respaldo # SinRespaldo
    /\ \E dano \in {Sano} \cup (IF con_danos THEN Danos(respaldo) ELSE {}) :
        Cargado(cargar_ultimo_respaldo(
                    Sistema(historial_operaciones, errores, unidades, carpetas,
                            unidad_actual, directorio_actual, ruta_actual,
                            indice_global),
                    [respaldo EXCEPT !.danado = dano]))

NextStore ==
    \/ CrearCarpeta(MaxCarpetas)
    \/ CrearArchivo(MaxArchivos)
    \/ EliminarArchivo
    \/ RenombrarArchivo
    \/ EliminarCarpeta
    \/ RenombrarCarpeta
    \/ ReconstruirIndice

SpecStore == InitStore /\ [][NextStore]_vars

\* The store and its rebuild: creations, directory deletes (which can leave the
\* index short of an entry) and rebuild_index_from_tree
NextReconstruir ==
    \/ CrearCarpeta(MaxCarpetasReconstruir)
    \/ CrearArchivo(MaxArchivosReconstruir)
    \/ EliminarCarpeta
    \/ ReconstruirIndice

SpecReconstruir == InitStore /\ [][NextReconstruir]_vars

\* The store with its snapshots: mutations, the clock, the current directory,
\* snapshot and restore
NextRespaldo ==
    \/ Tic
    \/ CrearCarpeta(MaxCarpetasRespaldo)
    \/ CrearArchivo(MaxArchivosRespaldo)
    \/ EliminarCarpeta
    \/ CambiarDirectorio
    \/ Respaldar
    \/ CargarUltimoRespaldo(FALSE)

SpecRespaldo == InitRespaldo /\ [][NextRespaldo]_vars

\* A one-unit store and the documents a restore can be given
NextLectura ==
    \/ CrearCarpeta(MaxCarpetasLectura)
    \/ CrearArchivo(MaxArchivosLectura)
    \/ CambiarDirectorio
    \/ LeerRespaldo

SpecLectura == InitStore /\ [][NextLectura]_vars

\* The directories of two units, the current directory, and the documents a
\* restore can be given
NextRuta ==
    \/ CrearCarpeta(MaxCarpetasRuta)
    \/ CambiarDirectorio
    \/ Respaldar
    \/ LeerRespaldo

SpecRuta == InitRespaldo /\ [][NextRuta]_vars

\* The directory trees of two units, the current directory, and the restores of
\* the documents with and without units
NextRestaurar ==
    \/ CrearCarpeta(MaxCarpetasRestaurar)
    \/ CambiarDirectorio
    \/ Respaldar
    \/ LeerUnidades

SpecRestaurar == InitRespaldo /\ [][NextRestaurar]_vars

\* The store with its histories and a backup file that may be read damaged
NextFallo ==
    \/ CrearCarpeta(MaxCarpetasRespaldo)
    \/ CrearArchivo(MaxArchivosRespaldo)
    \/ CambiarDirectorio
    \/ RegistrarOperacion
    \/ RegistrarError
    \/ Respaldar
    \/ CargarUltimoRespaldo(TRUE)

SpecFallo == InitRespaldo /\ [][NextFallo]_vars

-----------------------------------------------------------------------------
(* The command layer: cd, mkdir, type and rmdir on a one-unit SistemaArchivos *)

\* The sistema after construction, with an empty root directory, operations
\* being logged or not
InitComandos ==
    /\ log_operaciones \in BOOLEAN
    /\ InitSistema(UnidadesStore)

RECURSIVE Ancestros(_, _)
\* A directory and the directories its padre links lead to
Ancestros(cs, d) ==
    IF cs[d].padre = Nulo THEN {d} ELSE {d} \cup Ancestros(cs, cs[d].padre)

\* The Carpeta objects still referenced: those of the tree of raiz, the current
\* directory, the directories its padre links lead to, and all below them
Referenciadas(sis) ==
    [c \in UNION {Descendientes(sis.carpetas, a) :
                     a \in {sis.raiz} \cup Ancestros(sis.carpetas, sis.directorio_actual)}
        |-> sis.carpetas[c]]

\* sistema.ejecutar_comando of a command: it runs on the sistema of the state and
\* leaves its message (with the name the message holds, if any) and its sistema
Ejecuta(nombre, argumentos, r) ==
    /\ Cardinality(DOMAIN Referenciadas(r[2])) <= 1 + MaxCarpetasComandos
    /\ Len(ArchivosBajo(r[2].carpetas, r[2].raiz)) <= MaxArchivosComandos
    /\ r[2].historial_operaciones.longitud <= MaxHistorialComandos
    /\ carpetas' = Referenciadas(r[2])
    /\ directorio_actual' = r[2].directorio_actual
    /\ ruta_actual' = r[2].ruta_actual
    /\ historial_operaciones' = r[2].historial_operaciones
    /\ respaldo' = r[2].respaldo
    /\ resultado' = <<nombre, argumentos, r[1]>> \o SubSeq(r, 3, Len(r))
    /\ UNCHANGED <<grado, log_operaciones, indice_global, unidades, unidad_actual,
                   errores, reloj>>

\* The sistema of the state
EsteSistema ==
    SistemaArchivos(carpetas, directorio_actual, ruta_actual, historial_operaciones,
                    respaldo)

EjecutarCD ==
    \E ruta \in ArgumentosCD :
        Ejecuta("cd", <<ruta>>, ComandoCD(EsteSistema, <<ruta>>))

EjecutarMKDIR ==
    \E ruta \in ArgumentosMKDIR :
        Ejecuta("mkdir", <<ruta>>, ComandoMKDIR(EsteSistema, <<ruta>>))

EjecutarTYPE ==
    \E ruta \in ArgumentosTYPE, texto \in Contenidos :
        Ejecuta("type", <<ruta>>, ComandoTYPE(EsteSistema, <<ruta, texto>>))

EjecutarRMDIR ==
    \E ruta \in ArgumentosRMDIR, flags \in FlagsRMDIR :
        Ejecuta("rmdir", <<ruta>> \o flags, ComandoRMDIR(EsteSistema, <<ruta>> \o flags))

EjecutarCDRutas ==
    \E ruta \in RutasCD :
        Ejecuta("cd", <<ruta>>, ComandoCD(EsteSistema, <<ruta>>))

NextComandos ==
    \/ EjecutarCD
    \/ EjecutarMKDIR
    \/ EjecutarTYPE
    \/ EjecutarRMDIR

SpecComandos == InitComandos /\ [][NextComandos]_vars

\* mkdir with a name or a path, and _crear_directorio_actual with the name as
\* it is given
EjecutarMKDIRRaiz ==
    \E ruta \in ArgumentosMKDIRRaiz :
        Ejecuta("mkdir", <<ruta>>, ComandoMKDIR(EsteSistema, <<ruta>>))

EjecutarTYPERaiz ==
    \E ruta \in ArgumentosTYPERaiz, texto \in Contenidos :
        Ejecuta("type", <<ruta>>, ComandoTYPE(EsteSistema, <<ruta, texto>>))

EjecutarRMDIRRaiz ==
    \E ruta \in ArgumentosRMDIRRaiz, flags \in FlagsRMDIR :
        Ejecuta("rmdir", <<ruta>> \o flags, ComandoRMDIR(EsteSistema, <<ruta>> \o flags))

NextRaiz ==
    \/ EjecutarCD
    \/ EjecutarMKDIRRaiz
    \/ EjecutarTYPERaiz
    \/ EjecutarRMDIRRaiz

SpecRaiz == InitComandos /\ [][NextRaiz]_vars

EjecutarMKDIRSesion ==
    \E ruta \in ArgumentosMKDIRSesion :
        Ejecuta("mkdir", <<ruta>>, ComandoMKDIR(EsteSistema, <<ruta>>))

EjecutarTYPESesion ==
    \E ruta \in ArgumentosTYPESesion, texto \in Contenidos :
        Ejecuta("type", <<ruta>>, ComandoTYPE(EsteSistema, <<ruta, texto>>))

EjecutarRMDIRSesion ==
    \E ruta \in ArgumentosRMDIRSesion, flags \in FlagsRMDIR :
        Ejecuta("rmdir", <<ruta>> \o flags, ComandoRMDIR(EsteSistema, <<ruta>> \o flags))

EjecutarDIR ==
    \E argumentos \in ArgumentosDIR :
        Ejecuta("dir", argumentos, ComandoDIR(EsteSistema, argumentos))

EjecutarLOG ==
    Ejecuta("log", <<>>, ComandoLOG(EsteSistema, <<>>))

\* The history of a session that is listed and saved
NextLog ==
    \/ EjecutarCD
    \/ EjecutarMKDIRSesion
    \/ EjecutarLOG
    \/ PilaSerializar

SpecLog == InitComandos /\ [][NextLog]_vars

\* The session across the commands that take a target path
NextSesion ==
    \/ EjecutarCD
    \/ EjecutarMKDIRSesion
    \/ EjecutarTYPESesion
    \/ EjecutarRMDIRSesion
    \/ EjecutarDIR

SpecSesion == InitComandos /\ [][NextSesion]_vars

EjecutarMKDIRNombres ==
    \E ruta \in NombresCarpetaProbados :
        \/ Ejecuta("mkdir", <<ruta>>, ComandoMKDIR(EsteSistema, <<ruta>>))
        \/ Ejecuta("_crear_directorio_actual", <<ruta>>,
                   _crear_directorio_actual(EsteSistema, ruta))

\* type with a name or a path, and _crear_archivo_actual with the name as it is
\* given
EjecutarTYPENombres ==
    \E ruta \in NombresArchivoProbados, texto \in Contenidos :
        \/ Ejecuta("type", <<ruta>>, ComandoTYPE(EsteSistema, <<ruta, texto>>))
        \/ Ejecuta("_crear_archivo_actual", <<ruta>>,
                   _crear_archivo_actual(EsteSistema, ruta, texto))

NextNombres ==
    \/ EjecutarCD
    \/ EjecutarMKDIRNombres
    \/ EjecutarTYPENombres

SpecNombres == InitComandos /\ [][NextNombres]_vars

EjecutarMKDIRBorrar ==
    \E ruta \in ArgumentosMKDIRBorrar :
        Ejecuta("mkdir", <<ruta>>, ComandoMKDIR(EsteSistema, <<ruta>>))

EjecutarTYPEBorrar ==
    \E ruta \in ArgumentosTYPEBorrar, texto \in Contenidos :
        Ejecuta("type", <<ruta>>, ComandoTYPE(EsteSistema, <<ruta, texto>>))

EjecutarRMDIRBorrar ==
    \E ruta \in ArgumentosRMDIRBorrar, flags \in FlagsRMDIR :
        Ejecuta("rmdir", <<ruta>> \o flags, ComandoRMDIR(EsteSistema, <<ruta>> \o flags))

NextBorrar ==
    \/ EjecutarCD
    \/ EjecutarMKDIRBorrar
    \/ EjecutarTYPEBorrar
    \/ EjecutarRMDIRBorrar

SpecBorrar == InitComandos /\ [][NextBorrar]_vars

EjecutarMKDIRCrear ==
    \E ruta \in ArgumentosCrearCarpeta :
        Ejecuta("mkdir", <<ruta>>, ComandoMKDIR(EsteSistema, <<ruta>>))

EjecutarTYPECrear ==
    \E ruta \in ArgumentosCrearArchivo, texto \in Contenidos :
        Ejecuta("type", <<ruta>>, ComandoTYPE(EsteSistema, <<ruta, texto>>))

\* mkdir and type of names that differ in case only, and cd between them
NextCrear ==
    \/ EjecutarCD
    \/ EjecutarMKDIRCrear
    \/ EjecutarTYPECrear

SpecCrear == InitComandos /\ [][NextCrear]_vars

\* cd over the directories and files that mkdir and type create
NextCD ==
    \/ EjecutarCDRutas
    \/ EjecutarMKDIR
    \/ EjecutarTYPE

SpecCD == InitComandos /\ [][NextCD]_vars

-----------------------------------------------------------------------------
(* Claims about the B-tree *)

\* The entries of the index whose lowercase name is the lowercase of clave
EntradasConNombre(raiz, clave) ==
    SelectSeq(recorrer(raiz), LAMBDA e : Lower(e.nombre) = Lower(clave))

\* C2: after any sequence of BTree.insertar calls each lowercase key occurs at
\* most once in the whole tree (a repeated key is appended to the existing
\* entry list, in a leaf or in an internal node).
C2_ClaveUnaVez ==
    \A k \in Range(ClavesDelArbol(indice_global)) :
        Count(ClavesDelArbol(indice_global), k) = 1

\* C3: buscar_exacta(key) returns exactly the entries of the index whose
\* lowercase name is key.lower(), all of them and no others.
C3_BuscarExactaCompleta ==
    \A nombre \in NombresBTree :
        SameMultiset(buscar_exacta(indice_global, nombre),
                     EntradasConNombre(indice_global, nombre))

-----------------------------------------------------------------------------
(* Claims about the index and the directory trees *)

\* The full_path values the index holds, in traversal order
RutasDelIndice(raiz) ==
    [i \in 1..Len(recorrer(raiz)) |-> recorrer(raiz)[i].ruta_completa]

\* The absolute paths of the files reachable from the units' directory trees
RutasDelArbol(us, cs) ==
    [i \in 1..Len(ArchivosDelSistema(us, cs)) |-> ArchivosDelSistema(us, cs)[i][2]]

\* C1: after each successful create, delete or rename of a file or a directory
\* the multiset of full_path values in the global index equals the multiset of
\* absolute paths of the files reachable from the units' directory trees.
C1_IndiceIgualArbol ==
    (Len(resultado) = 2 /\ resultado[2] = "ok" /\ resultado[1] # "reconstruir_indice") =>
        SameMultiset(RutasDelIndice(indice_global), RutasDelArbol(unidades, carpetas))

\* C4: in every state the index reaches by insertar_archivo, eliminar_por_ruta,
\* eliminar_por_prefijo, renombrar_ruta and deserializar calls no two entries
\* have the same full_path.
C4_RutaUnaVez ==
    \A ruta \in Range(RutasDelIndice(indice_global)) :
        Count(RutasDelIndice(indice_global), ruta) = 1

\* The entries of an index as (name, full_path, size_kb)
EntradasDe(raiz) ==
    {<<recorrer(raiz)[i].nombre, recorrer(raiz)[i].ruta_completa,
       recorrer(raiz)[i].tamano_kb>> : i \in 1..Len(recorrer(raiz))}

C12_IncrementalIgualReconstruido ==
    (Len(resultado) = 2 /\ resultado[2] = "ok" /\ resultado[1] # "reconstruir_indice") =>
        EntradasDe(indice_global) = EntradasDe(reconstruir_indice_global(unidades, carpetas))

\* C13: a directory rename on a store whose index agrees with its trees keeps
\* the number of index entries and leaves every file, below the directory or
\* outside it, with exactly one entry, at its path in the new tree.
C13_RenombrarCarpetaConservaEntradas ==
    [][(/\ resultado' = <<"renombrar_carpeta", "ok">>
        /\ SameMultiset(RutasDelIndice(indice_global), RutasDelArbol(unidades, carpetas)))
       => /\ Len(recorrer(indice_global')) = Len(recorrer(indice_global))
          /\ SameMultiset(RutasDelIndice(indice_global'),
                          RutasDelArbol(unidades', carpetas'))]_vars

\* The entry's path lies below the directory of that absolute path
BajoDirectorio(e, prefijo) ==
    StartsWith(_normalizar_ruta(e.ruta_completa), _normalizar_ruta(prefijo) \o <<"/">>)

\* C14: eliminar_por_prefijo on a directory's absolute path removes exactly the
\* entries of the files below that directory, returns their number, and keeps
\* the entry of every file outside it.
C14_PrefijoEliminaSoloElSubarbol ==
    [][(Len(resultado') = 3 /\ resultado'[1] = "eliminar_por_prefijo")
       => LET fuera == SelectSeq(recorrer(indice_global),
                                 LAMBDA e : ~BajoDirectorio(e, resultado'[3]))
          IN  /\ SameMultiset(recorrer(indice_global'), fuera)
              /\ resultado'[2] = Len(recorrer(indice_global)) - Len(fuera)]_vars

\* C15: eliminar_por_ruta(p) removes the entries whose path is p and keeps every
\* other entry; it returns whether there was one, leaves the index as it is
\* when there was none, and a second call right after changes nothing.
C15_EliminarPorRutaExacta ==
    [][(Len(resultado') = 3 /\ resultado'[1] = "eliminar_por_ruta")
       => LET otras == SelectSeq(recorrer(indice_global),
                                 LAMBDA e : e.ruta_completa # resultado'[3])
          IN  /\ SameMultiset(recorrer(indice_global'), otras)
              /\ resultado'[2] = (Len(otras) < Len(recorrer(indice_global)))
              /\ ~resultado'[2] => indice_global' = indice_global
              /\ eliminar_por_ruta(indice_global', resultado'[3])
                    = <<FALSE, indice_global'>>]_vars

\* eliminar_por_ruta has removed an entry and left another of the same file name
C15_Witness ==
    /\ Len(resultado) = 3
    /\ resultado[1] = "eliminar_por_ruta"
    /\ resultado[2]
    /\ \E e \in Range(recorrer(indice_global)) :
           /\ e.ruta_completa # resultado[3]
           /\ EndsWith(resultado[3], <<"/">> \o e.nombre)

-----------------------------------------------------------------------------
(* Claims about a directory's BST of files *)

\* The lowercase names of a directory's files, in in-order
NombresEnOrden(carpeta) ==
    LET fs == archivos_en_orden(carpeta, "inorden")
    IN  [i \in 1..Len(fs) |-> Lower(fs[i].nombre)]

\* C5: after any sequence of agregar_archivo and eliminar_archivo calls the
\* in-order traversal lists the names in strictly ascending case-insensitive
\* order, so no case-insensitive name is present twice.
C5_InordenEstricto ==
    \A i \in 1..(Len(NombresEnOrden(carpetas[1])) - 1) :
        StrLt(NombresEnOrden(carpetas[1])[i], NombresEnOrden(carpetas[1])[i + 1])

\* C5's case: a node with two children has been removed from a BST that still
\* holds three files.
C5_Witness ==
    /\ Len(resultado) = 3
    /\ resultado[1] = "eliminar_archivo"
    /\ resultado[3]
    /\ Len(NombresEnOrden(carpetas[1])) = 3
    /\ carpetas[1].archivos_raiz.izq # None
    /\ carpetas[1].archivos_raiz.der # None

\* (In the claims below a step that leaves the clock alone is a call: the
\* clock's own step leaves resultado as the last call set it.)

\* The files of a directory, as a set
ArchivosDe(carpeta) == Range(archivos_en_orden(carpeta, "inorden"))

\* The files of a directory that have this name, whatever the case
ArchivosLlamados(carpeta, nombre) ==
    {f \in ArchivosDe(carpeta) : Lower(f.nombre) = Lower(nombre)}

\* C23: agregar_archivo on a directory that holds a file of the same
\* case-insensitive name returns False and leaves the directory as it was (the
\* BST, the stored file and its content, fecha_modificacion); otherwise it
\* returns True, the file is added and fecha_modificacion is updated.
C23_AgregarArchivoRechazaRepetido ==
    [][(Len(resultado') = 4 /\ resultado'[1] = "agregar_archivo" /\ reloj' = reloj) =>
          IF ArchivosLlamados(carpetas[1], resultado'[2]) # {}
          THEN /\ resultado'[3] = FALSE
               /\ carpetas'[1] = carpetas[1]
          ELSE /\ resultado'[3] = TRUE
               /\ ArchivosDe(carpetas'[1])
                     = ArchivosDe(carpetas[1])
                       \cup {[Archivo(resultado'[2], resultado'[4]) EXCEPT
                                 !.fecha_creacion = reloj, !.fecha_modificacion = reloj]}
               /\ Len(archivos_en_orden(carpetas'[1], "inorden"))
                     = Len(archivos_en_orden(carpetas[1], "inorden")) + 1
               /\ carpetas'[1].fecha_modificacion = reloj]_vars

\* agregar_archivo of B with the content y has been rejected by a directory that
\* holds b with the content x and was last modified before
C23_Witness ==
    /\ resultado = <<"agregar_archivo", <<"B">>, FALSE, <<"y">>>>
    /\ ArchivosLlamados(carpetas[1], <<"b">>) # {}
    /\ \A f \in ArchivosLlamados(carpetas[1], <<"b">>) :
           f.nombre = <<"b">> /\ f.contenido = <<"x">>
    /\ carpetas[1].fecha_modificacion < reloj

\* C24: eliminar_archivo(nombre) returns True exactly when the directory held
\* a file of that case-insensitive name; afterwards that file is absent and
\* every other file is still there with its name and content and is found by
\* buscar_archivo, also when the node removed had two children; when it returns
\* False the directory is unchanged.
C24_EliminarArchivoSoloEse ==
    [][(Len(resultado') = 4 /\ resultado'[1] = "eliminar_archivo" /\ reloj' = reloj) =>
          /\ resultado'[3] = (ArchivosLlamados(carpetas[1], resultado'[2]) # {})
          /\ ArchivosDe(carpetas'[1])
                = ArchivosDe(carpetas[1]) \ ArchivosLlamados(carpetas[1], resultado'[2])
          /\ Len(archivos_en_orden(carpetas'[1], "inorden"))
                = Cardinality(ArchivosDe(carpetas'[1]))
          /\ buscar_archivo(carpetas'[1], resultado'[2]) = None
          /\ \A f \in ArchivosDe(carpetas'[1]) : buscar_archivo(carpetas'[1], f.nombre) = f
          /\ ~resultado'[3] => carpetas'[1] = carpetas[1]]_vars

\* A node with two children has been removed and the two other files remain
C24_Witness ==
    /\ Len(resultado) = 4
    /\ resultado[1] = "eliminar_archivo"
    /\ resultado[3]
    /\ resultado[4]
    /\ Cardinality(ArchivosDe(carpetas[1])) = 2

\* C22: agregar_carpeta(child) on a parent that already has a subdirectory or a
\* file of the same case-insensitive name leaves parent.subcarpetas unchanged;
\* otherwise child.padre is the parent, child is the last of parent.subcarpetas
\* and the parent's fecha_modificacion is updated.
C22_AgregarCarpetaRechazaRepetido ==
    [][(Len(resultado') = 3 /\ resultado'[1] = "agregar_carpeta") =>
          IF NombreEnUso(carpetas, 1, resultado'[2])
          THEN carpetas'[1].subcarpetas = carpetas[1].subcarpetas
          ELSE /\ carpetas'[resultado'[3]].padre = 1
               /\ carpetas'[1].subcarpetas = Append(carpetas[1].subcarpetas, resultado'[3])
               /\ carpetas'[1].fecha_modificacion = reloj]_vars

-----------------------------------------------------------------------------
(* Claims about snapshot and restore *)

RECURSIVE EstructuraArchivos(_)
\* A BST of files without its timestamps: names, contents, extensions, shape
EstructuraArchivos(nodo) ==
    IF nodo = None THEN None
    ELSE [archivo |-> [nombre |-> nodo.archivo.nombre,
                       contenido |-> nodo.archivo.contenido,
                       extension |-> nodo.archivo.extension],
          izq |-> EstructuraArchivos(nodo.izq),
          der |-> EstructuraArchivos(nodo.der)]

RECURSIVE EstructuraCarpeta(_, _)
\* A directory tree without its timestamps
EstructuraCarpeta(cs, d) ==
    [nombre |-> cs[d].nombre,
     subcarpetas |-> [i \in 1..Len(cs[d].subcarpetas) |->
                          EstructuraCarpeta(cs, cs[d].subcarpetas[i])],
     archivos |-> EstructuraArchivos(cs[d].archivos_raiz)]

\* The units in order, each with its name and its directory tree
Estructura(us, cs) ==
    [u \in 1..Len(us) |->
        [nombre |-> us[u].nombre, raiz |-> EstructuraCarpeta(cs, us[u].raiz)]]

RECURSIVE FechasCarpeta(_, _)
\* The created_at and modified_at of a directory, of its files (in pre-order)
\* and of its subdirectories
FechasCarpeta(cs, d) ==
    [fecha_creacion |-> cs[d].fecha_creacion,
     fecha_modificacion |-> cs[d].fecha_modificacion,
     archivos |-> LET fs == archivos_en_orden(cs[d], "preorden")
                  IN  [i \in 1..Len(fs) |-> <<fs[i].fecha_creacion,
                                              fs[i].fecha_modificacion>>],
     subcarpetas |-> [i \in 1..Len(cs[d].subcarpetas) |->
                          FechasCarpeta(cs, cs[d].subcarpetas[i])]]

\* The timestamps of every directory and file of the store
Fechas(us, cs) == [u \in 1..Len(us) |-> FechasCarpeta(cs, us[u].raiz)]

\* The latest backup file is the snapshot of the units and the index as they are
RespaldoDelEstado ==
    /\ respaldo # SinRespaldo
    /\ respaldo.unidades = _serializar_unidades(unidades, carpetas)
    /\ respaldo.indice_global = serializar(indice_global)

\* This step is a cargar_ultimo_respaldo that returned True
RestauraBien == resultado' = <<"cargar_ultimo_respaldo", "ok">>

\* This step is a cargar_ultimo_respaldo that returned False
RestauraMal == resultado' = <<"cargar_ultimo_respaldo", "False">>

\* C6: restoring a snapshot of the store reproduces the same units in the same
\* order, the same directories, subdirectory order, files and BST shapes, and
\* the same multiset of index entries.
C6_RestaurarReproduce ==
    [][(RespaldoDelEstado /\ RestauraBien) =>
          /\ Estructura(unidades', carpetas') = Estructura(unidades, carpetas)
          /\ SameMultiset(recorrer(indice_global'), recorrer(indice_global))]_vars

\* C7: restoring a snapshot of the store leaves every directory and every file
\* with the created_at and modified_at it had when the snapshot was taken.
C7_RestaurarConservaFechas ==
    [][(RespaldoDelEstado /\ RestauraBien) =>
          Fechas(unidades', carpetas') = Fechas(unidades, carpetas)]_vars

\* C9: a restore that fails leaves the histories, the units and their trees,
\* the current unit, directory and path, and the index as they were.
C9_FalloSinCambios ==
    [][RestauraMal =>
          /\ historial_operaciones' = historial_operaciones
          /\ errores' = errores
          /\ _serializar_unidades(unidades', carpetas')
                 = _serializar_unidades(unidades, carpetas)
          /\ unidad_actual' = unidad_actual
          /\ ruta_absoluta(carpetas', directorio_actual')
                 = ruta_absoluta(carpetas, directorio_actual)
          /\ ruta_actual' = ruta_actual
          /\ recorrer(indice_global') = recorrer(indice_global)]_vars

\* C16: restoring a document whose index field is omitted succeeds and
\* recovers the index by rebuild: afterwards the set of full_path values of
\* the index is the set of absolute paths of the files of the restored units.
C16_SinIndiceReconstruye ==
    (Len(resultado) = 3 /\ resultado[3] = "sin_indice") =>
        /\ resultado[2] = "ok"
        /\ Range(RutasDelIndice(indice_global)) = Range(RutasDelArbol(unidades, carpetas))

\* A document without its index field has been restored into units that hold
\* a file
C16_Witness ==
    /\ resultado = <<"cargar_ultimo_respaldo", "ok", "sin_indice">>
    /\ Len(RutasDelArbol(unidades, carpetas)) = 1
    /\ Len(recorrer(indice_global)) = 1

\* C17: after every successful restore, also of a document whose serialized
\* index is stale, the set of full_path values of the index is the set of
\* absolute paths of the restored files (a stale index triggers a rebuild).
C17_IndiceObsoletoReconstruye ==
    (Len(resultado) = 3 /\ resultado[1] = "cargar_ultimo_respaldo" /\ resultado[2] = "ok") =>
        Range(RutasDelIndice(indice_global)) = Range(RutasDelArbol(unidades, carpetas))

\* C18: when the current path of the document does not resolve in the restored
\* tree the restore still succeeds, the current unit is the saved one, the
\* current directory is the root of that unit and the current path is its name.
C18_RutaPerdidaVuelveALaRaiz ==
    (Len(resultado) = 3 /\ resultado[3] = "ruta_perdida") =>
        /\ resultado[2] = "ok"
        /\ unidades[unidad_actual].nombre = respaldo.unidad_actual
        /\ directorio_actual = unidades[unidad_actual].raiz
        /\ ruta_actual = unidades[unidad_actual].nombre

\* A document saved in a subdirectory of the second unit has been restored
\* with a current path that does not resolve
C18_Witness ==
    /\ resultado = <<"cargar_ultimo_respaldo", "ok", "ruta_perdida">>
    /\ unidad_actual = 2
    /\ respaldo.unidad_actual = unidades[2].nombre
    /\ respaldo.ruta_actual # unidades[2].nombre

-----------------------------------------------------------------------------
(* Claims about the commands *)

\* The message is one of the errors of mkdir, type and rmdir
EsErrorDeComando(mensaje) ==
    \/ EmpiezaConError(mensaje)
    \/ mensaje \in {"Nombre de carpeta invalido", "Nombre de archivo invalido"}

\* C10: a mkdir, type or rmdir command that returns an error (name conflict,
\* invalid name, target directory not found, directory not empty) leaves the
\* directory trees, the files, the index, the current directory and the current
\* path as they were.
C10_ErrorSinCambios ==
    [][(/\ Len(resultado') = 3
        /\ resultado'[1] \in {"mkdir", "type", "rmdir"}
        /\ EsErrorDeComando(resultado'[3])) =>
          UNCHANGED <<carpetas, unidades, indice_global, directorio_actual,
                      ruta_actual>>]_vars

\* C10's case: from the root, mkdir a/b has gone to a, found b there already and
\* returned the name conflict.
C10_Witness ==
    /\ resultado = <<"mkdir", <<<<"a", "/", "b">>>>, "Error: Ya existe un elemento">>
    /\ directorio_actual = 1
    /\ ruta_actual = <<"C", ":">>

\* The cd paths that are ".." alone or a relative path of ".." components
SubidasRelativas == {<<".", ".">>, <<".", ".", "/", ".", ".">>}

\* The cd has left the message, the current directory and the current path of r
MismoDestino(r) ==
    /\ resultado'[3] = r[1]
    /\ directorio_actual' = r[2].directorio_actual
    /\ ruta_actual' = r[2].ruta_actual

\* C19: ".." resolved from the root of the unit is a no-op without error,
\* alone, as a component of a relative path, or as a component of an absolute
\* path: the current directory stays the root and the current path the unit's
\* name, and the components after it resolve as from the root.
C19_SubirDesdeLaRaizNoHaceNada ==
    [][(Len(resultado') >= 3 /\ resultado'[1] = "cd") =>
          /\ (\/ resultado'[2] = <<<<"C", ":", "/", ".", ".">>>>
              \/ (/\ resultado'[2][1] \in SubidasRelativas
                  /\ directorio_actual = EsteSistema.raiz)) =>
                 /\ Len(resultado') = 3
                 /\ ~EmpiezaConError(resultado'[3])
                 /\ directorio_actual' = EsteSistema.raiz
                 /\ ruta_actual' = EsteSistema.unidad_raiz
          /\ resultado'[2] = <<<<"C", ":", "/", ".", ".", "/", "a">>>> =>
                 MismoDestino(ComandoCD(EsteSistema, <<<<"C", ":", "/", "a">>>>))]_vars

\* cd C:/.. has run in a sistema that has a subdirectory, from that subdirectory
\* or from the root, and has left the root
C19_Witness ==
    /\ resultado = <<"cd", <<<<"C", ":", "/", ".", ".">>>>, "Directorio actual">>
    /\ carpetas[1].subcarpetas # <<>>
    /\ directorio_actual = 1
    /\ ruta_actual = <<"C", ":">>

\* The components of a cd path: those after the unit for an absolute path
ComponentesDe(ruta) ==
    SelectSeq(Split(IF StartsWith(ruta, <<"C", ":">>) THEN SubSeq(ruta, 3, Len(ruta))
                    ELSE ruta, "/"),
              LAMBDA parte : parte # <<>>)

RECURSIVE PrimerFaltante(_, _, _)
\* The first of the components that is not ".." and not the name, in any case,
\* of a subdirectory of the directory the components before it lead to from d;
\* <<>> when every component resolves
PrimerFaltante(cs, d, partes) ==
    IF partes = <<>> THEN <<>>
    ELSE IF Head(partes) = <<".", ".">>
    THEN PrimerFaltante(cs, IF cs[d].padre = Nulo THEN d ELSE cs[d].padre, Tail(partes))
    ELSE IF buscar_carpeta(cs, d, Head(partes)) = Nulo THEN Head(partes)
    ELSE PrimerFaltante(cs, buscar_carpeta(cs, d, Head(partes)), Tail(partes))

\* The component of the cd path that is missing in the sistema of the state
FaltanteDe(ruta) ==
    PrimerFaltante(carpetas,
                   IF StartsWith(ruta, <<"C", ":">>) THEN 1 ELSE directorio_actual,
                   ComponentesDe(ruta))

NombresDeHijos(cs, d) ==
    [i \in 1..Len(cs[d].subcarpetas) |-> Lower(cs[cs[d].subcarpetas[i]].nombre)]
    \o [i \in 1..Len(archivos_en_orden(cs[d], "inorden")) |->
           Lower(archivos_en_orden(cs[d], "inorden")[i].nombre)]

\* C21: after any sequence of mkdir and type commands, with names in any case,
\* in the current directory or through a path, no directory has two direct
\* children, directory or file, whose names are equal case-insensitively.
C21_HijosSinNombreRepetido ==
    \A d \in DOMAIN carpetas :
        \A i, j \in 1..Len(NombresDeHijos(carpetas, d)) :
            i # j => NombresDeHijos(carpetas, d)[i] # NombresDeHijos(carpetas, d)[j]

\* mkdir a.x has met the file A.X in the current directory, which also holds a
\* subdirectory, and has refused
C21_Witness ==
    /\ resultado = <<"mkdir", <<<<"a", ".", "x">>>>, "Error: Ya existe un elemento">>
    /\ carpetas[directorio_actual].subcarpetas # <<>>
    /\ buscar_archivo(carpetas[directorio_actual], <<"a", ".", "x">>) # None
    /\ buscar_archivo(carpetas[directorio_actual], <<"a", ".", "x">>).nombre
           = <<"A", ".", "X">>

-----------------------------------------------------------------------------
(* Claims about the sizes and the searches of the index *)

\* The kilobytes the contract gives to a content: none for no content, and
\* for a text the least whole number of kilobytes, one at least, that holds
\* its bytes
TamanoContratado(contenido) ==
    IF contenido = None THEN 0
    ELSE CHOOSE n \in 1..(contenido.bytes + 1) :
             /\ contenido.bytes <= n * 1024
             /\ n > 1 => contenido.bytes > (n - 1) * 1024

\* C25: the size_kb of an index entry is the ceiling of the UTF-8 byte length
\* of the content over 1024, one at least for any present content, the empty
\* text included, and 0 only for an absent content.
C25_TamanoEnKb ==
    [][(Len(resultado') = 3 /\ resultado'[1] = "insertar_archivo") =>
          SameMultiset(recorrer(indice_global'),
                       Append(recorrer(indice_global),
                              ArchivoIndexEntry(resultado'[2],
                                                RutaDe(<<"C", ":">>, resultado'[2]),
                                                TamanoContratado(resultado'[3]),
                                                reloj, reloj,
                                                _obtener_extension(resultado'[2]))))]_vars

\* The index holds an entry of 2 kb, and the empty text has just been filed
\* with 1 kb
C25_Witness ==
    /\ Len(resultado) = 3
    /\ resultado[1] = "insertar_archivo"
    /\ resultado[3] # None
    /\ resultado[3].bytes = 0
    /\ Len(recorrer(indice_global)) = 2
    /\ \E i, j \in 1..2 :
           /\ recorrer(indice_global)[i].tamano_kb = 1
           /\ recorrer(indice_global)[j].tamano_kb = 2

\* The sort key (lowercase name, size_kb, lowercase full_path) of the first
\* entry does not come after that of the second
NoDespues(e, f) ==
    \/ StrLt(Lower(e.nombre), Lower(f.nombre))
    \/ /\ Lower(e.nombre) = Lower(f.nombre)
       /\ \/ e.tamano_kb < f.tamano_kb
          \/ /\ e.tamano_kb = f.tamano_kb
             /\ ~StrLt(Lower(f.ruta_completa), Lower(e.ruta_completa))

\* The entry is one the combined search asks for: its name holds the fragment,
\* in any case, when one is given, and its size is within the bounds given
Pedida(e, fragmento, minimo_kb, maximo_kb) ==
    /\ fragmento # <<>> => EnCadena(Lower(fragmento[1]), Lower(e.nombre))
    /\ minimo_kb # <<>> => e.tamano_kb >= minimo_kb[1]
    /\ maximo_kb # <<>> => e.tamano_kb <= maximo_kb[1]

\* C26: buscar_combinado(fragment, min_kb, max_kb) returns exactly the index
\* entries whose lowercase name contains the fragment (all when it is absent)
\* and whose size_kb lies within the inclusive bounds that are given, sorted
\* ascending by (lowercase name, size_kb, lowercase full_path).
C26_BuscarCombinado ==
    (Len(resultado) = 5 /\ resultado[1] = "buscar_combinado") =>
        /\ SameMultiset(resultado[5],
                        SelectSeq(recorrer(indice_global),
                                  LAMBDA e : Pedida(e, resultado[2], resultado[3],
                                                    resultado[4])))
        /\ \A i, j \in 1..Len(resultado[5]) :
               i < j => NoDespues(resultado[5][i], resultado[5][j])

\* buscar_combinado("B", 2, 2) has returned the two entries named b and B of
\* 2 kb, C:/a/b before C:/B, leaving out the b of 1 kb and the entry named c
C26_Witness ==
    /\ Len(resultado) = 5
    /\ resultado[1] = "buscar_combinado"
    /\ resultado[2] = <<<<"B">>>>
    /\ resultado[3] = <<2>>
    /\ resultado[4] = <<2>>
    /\ Len(resultado[5]) = 2
    /\ resultado[5][1].ruta_completa = <<"C", ":", "/", "a", "/", "b">>
    /\ resultado[5][2].ruta_completa = <<"C", ":", "/", "B">>
    /\ Len(recorrer(indice_global)) = 4
    /\ ~indice_global.es_hoja

RECURSIVE ParesDelArbol(_)
\* Every (key, entry) of the tree: those of the node, then those of each child
ParesDelArbol(nodo) ==
    Flatten([i \in 1..Len(nodo.claves) |->
                [j \in 1..Len(nodo.valores[i]) |-> <<nodo.claves[i], nodo.valores[i][j]>>]])
    \o Flatten([i \in 1..Len(nodo.hijos) |-> ParesDelArbol(nodo.hijos[i])])

\* The entries of the tree whose key holds the fragment in any case
EntradasConFragmento(raiz, fragmento) ==
    [i \in 1..Len(SelectSeq(ParesDelArbol(raiz),
                            LAMBDA par : EnCadena(Lower(fragmento), par[1]))) |->
        SelectSeq(ParesDelArbol(raiz),
                  LAMBDA par : EnCadena(Lower(fragmento), par[1]))[i][2]]

\* C27: after any sequence of index mutations, search_fragment(substring)
\* returns every index entry whose key contains the substring
\* case-insensitively, from every node at every level of the B-tree, each
\* exactly once, and no entry whose key does not contain it.
C27_BuscarFragmento ==
    (Len(resultado) = 3 /\ resultado[1] = "buscar_parcial") =>
        SameMultiset(resultado[3], EntradasConFragmento(indice_global, resultado[2]))

\* buscar_parcial("B") has returned three entries of a tree of two levels, one
\* of them held by the root and two by one key of a leaf, and has left out
\* the entry of another key
C27_Witness ==
    /\ Len(resultado) = 3
    /\ resultado[1] = "buscar_parcial"
    /\ resultado[2] = <<"B">>
    /\ Len(resultado[3]) = 3
    /\ ~indice_global.es_hoja
    /\ \E i \in 1..Len(indice_global.claves) :
           EnCadena(<<"b">>, indice_global.claves[i])
    /\ \E h \in 1..Len(indice_global.hijos) :
           \E i \in 1..Len(indice_global.hijos[h].claves) :
               /\ EnCadena(<<"b">>, indice_global.hijos[h].claves[i])
               /\ Len(indice_global.hijos[h].valores[i]) = 2
    /\ Len(recorrer(indice_global)) = 4

\* The records of the entries of a tree, node by node
RegistrosDelArbol(raiz) ==
    [i \in 1..Len(ParesDelArbol(raiz)) |-> to_dict(ParesDelArbol(raiz)[i][2])]

\* C28: serializar() lists every index entry exactly once in non-decreasing
\* key (lowercase name) order; deserializar(records) discards whatever the
\* index held before and leaves an index whose multiset of entries equals the
\* records; hence deserializar(serializar()) preserves the index contents.
C28_SerializarDeserializar ==
    [][/\ (Len(resultado') = 2 /\ resultado'[1] = "serializar") =>
            /\ SameMultiset(resultado'[2], RegistrosDelArbol(indice_global))
            /\ \A i, j \in 1..Len(resultado'[2]) :
                   i < j => ~StrLt(Lower(resultado'[2][j].nombre),
                                   Lower(resultado'[2][i].nombre))
       /\ (Len(resultado') = 2 /\ resultado'[1] = "deserializar") =>
            /\ SameMultiset(RegistrosDelArbol(indice_global'), resultado'[2])
            /\ resultado'[2] = serializar(indice_global) =>
                   SameMultiset(RegistrosDelArbol(indice_global'),
                                RegistrosDelArbol(indice_global))]_vars

\* deserializar has been given four records in descending order of their
\* names and has left a tree of two levels
C28_Witness ==
    /\ Len(resultado) = 2
    /\ resultado[1] = "deserializar"
    /\ Len(resultado[2]) = 4
    /\ resultado[2][1].nombre = <<"c">>
    /\ resultado[2][4].nombre = <<"a">>
    /\ ~indice_global.es_hoja
    /\ Len(recorrer(indice_global)) = 4

\* The entries of an index that have that path
EntradasEnRuta(raiz, ruta) ==
    SelectSeq(recorrer(raiz), LAMBDA e : e.ruta_completa = ruta)

\* The entries of an index that do not have that path
EntradasFueraDeRuta(raiz, ruta) ==
    SelectSeq(recorrer(raiz), LAMBDA e : e.ruta_completa # ruta)

\* C29: renombrar_ruta(old_path, new_name, new_path), the two paths being
\* different, on an index holding an entry at old_path leaves no entry at
\* old_path and one entry at new_path with the new name, keyed under the new
\* lowercase name, with that entry's timestamps and size_kb; the number of
\* entries and every other entry are unchanged; when no entry has old_path it
\* returns False and changes nothing.
C29_RenombrarRuta ==
    [][(/\ Len(resultado') = 5
        /\ resultado'[1] = "renombrar_ruta"
        /\ resultado'[2] # resultado'[4]) =>
          IF EntradasEnRuta(indice_global, resultado'[2]) # <<>>
          THEN /\ resultado'[5]
               /\ EntradasEnRuta(indice_global', resultado'[2]) = <<>>
               /\ Len(EntradasEnRuta(indice_global', resultado'[4])) = 1
               /\ EntradasEnRuta(indice_global', resultado'[4])[1]
                     = [EntradasEnRuta(indice_global, resultado'[2])[1]
                           EXCEPT !.nombre = resultado'[3],
                                  !.ruta_completa = resultado'[4]]
               /\ <<Lower(resultado'[3]), EntradasEnRuta(indice_global', resultado'[4])[1]>>
                     \in Range(ParesDelArbol(indice_global'))
               /\ Len(recorrer(indice_global')) = Len(recorrer(indice_global))
               /\ SameMultiset(EntradasFueraDeRuta(indice_global', resultado'[4]),
                               EntradasFueraDeRuta(indice_global, resultado'[2]))
          ELSE /\ ~resultado'[5]
               /\ indice_global' = indice_global]_vars

\* C29 where the index holds one entry at old_path and none at new_path: the
\* states in which no path is held twice
C29_RenombrarRutaLibre ==
    [][(/\ Len(resultado') = 5
        /\ resultado'[1] = "renombrar_ruta"
        /\ resultado'[2] # resultado'[4]
        /\ Len(EntradasEnRuta(indice_global, resultado'[2])) = 1
        /\ EntradasEnRuta(indice_global, resultado'[4]) = <<>>) =>
          /\ resultado'[5]
          /\ EntradasEnRuta(indice_global', resultado'[2]) = <<>>
          /\ Len(EntradasEnRuta(indice_global', resultado'[4])) = 1
          /\ EntradasEnRuta(indice_global', resultado'[4])[1]
                = [EntradasEnRuta(indice_global, resultado'[2])[1]
                      EXCEPT !.nombre = resultado'[3], !.ruta_completa = resultado'[4]]
          /\ SameMultiset(EntradasFueraDeRuta(indice_global', resultado'[4]),
                          EntradasFueraDeRuta(indice_global, resultado'[2]))]_vars

RECURSIVE Destino(_, _, _)
\* The directory the components lead to from d by the names, in any case, of
\* subdirectories; Nulo when one of them is no subdirectory
Destino(cs, d, partes) ==
    IF partes = <<>> THEN d
    ELSE IF buscar_carpeta(cs, d, Head(partes)) = Nulo THEN Nulo
    ELSE Destino(cs, buscar_carpeta(cs, d, Head(partes)), Tail(partes))

\* The directory a rmdir path names in the sistema of the state, Nulo if none
ObjetivoRMDIR(ruta) ==
    Destino(carpetas, IF StartsWith(ruta, <<"C", ":">>) THEN 1 ELSE directorio_actual,
            ComponentesDe(ruta))

\* The directory has a child, subdirectory or file
TieneHijos(carpeta) == Len(carpeta.subcarpetas) > 0 \/ ArchivosDe(carpeta) # {}

\* C30: a remove-directory without /s of a directory that still has a child,
\* subdirectory or file, is rejected as not empty and the directory and all
\* its contents remain in the tree; with /s the directory and all its
\* descendants are removed from the parent.
C30_RmdirNoVacia ==
    [][(/\ Len(resultado') = 3
        /\ resultado'[1] = "rmdir"
        /\ ObjetivoRMDIR(resultado'[2][1]) # Nulo) =>
          IF Len(resultado'[2]) = 1
          THEN TieneHijos(carpetas[ObjetivoRMDIR(resultado'[2][1])]) =>
                  /\ resultado'[3] = "Error: La carpeta no esta vacia"
                  /\ UNCHANGED <<carpetas, unidades>>
          ELSE /\ ~EmpiezaConError(resultado'[3])
               /\ carpetas'[carpetas[ObjetivoRMDIR(resultado'[2][1])].padre].subcarpetas
                     = SelectSeq(carpetas[carpetas[ObjetivoRMDIR(resultado'[2][1])].padre]
                                     .subcarpetas,
                                 LAMBDA c : c # ObjetivoRMDIR(resultado'[2][1]))
               /\ Descendientes(carpetas', carpetas[ObjetivoRMDIR(resultado'[2][1])].padre)
                     \cap Descendientes(carpetas, ObjetivoRMDIR(resultado'[2][1])) = {}
               /\ Descendientes(carpetas', carpetas[ObjetivoRMDIR(resultado'[2][1])].padre)
                     \cup Descendientes(carpetas, ObjetivoRMDIR(resultado'[2][1]))
                     = Descendientes(carpetas, carpetas[ObjetivoRMDIR(resultado'[2][1])].padre)]_vars

\* rmdir A, without /s, has met the directory a of the root, which holds a
\* file and no subdirectory, and has refused
C30_Witness ==
    /\ resultado = <<"rmdir", <<<<"A">>>>, "Error: La carpeta no esta vacia">>
    /\ directorio_actual = 1
    /\ buscar_carpeta(carpetas, 1, <<"a">>) # Nulo
    /\ carpetas[buscar_carpeta(carpetas, 1, <<"a">>)].subcarpetas = <<>>
    /\ carpetas[buscar_carpeta(carpetas, 1, <<"a">>)].archivos_raiz # None

-----------------------------------------------------------------------------
(* Claims about the names and the targets of the commands *)

\* The position of the last separator of a path, 0 when it has none
UltimoSeparador(ruta) ==
    IF \E i \in 1..Len(ruta) : ruta[i] \in {"/", "\\"}
    THEN CHOOSE i \in 1..Len(ruta) :
             /\ ruta[i] \in {"/", "\\"}
             /\ \A j \in (i + 1)..Len(ruta) : ruta[j] \notin {"/", "\\"}
    ELSE 0

\* The name a mkdir or type argument asks for: what follows its last separator
NombrePedido(ruta) == SubSeq(ruta, UltimoSeparador(ruta) + 1, Len(ruta))

\* The directory part of a mkdir or type argument, with "/" for separators
CarpetaPedida(ruta) == ReemplazarBarras(SubSeq(ruta, 1, UltimoSeparador(ruta) - 1))

\* The name is empty or blank, or holds one of / \ : * ? " < > |
NombreProhibido(nombre) ==
    \/ \A i \in 1..Len(nombre) : nombre[i] = " "
    \/ \E i \in 1..Len(nombre) :
           nombre[i] \in {"/", "\\", ":", "*", "?", "\"", "<", ">", "|"}

\* The name of the request the step has run, and whether the request names a
\* name the contract forbids
NombreDelPaso(r) == IF r[1] \in {"mkdir", "type"} THEN NombrePedido(r[2][1]) ELSE r[2][1]

PasoProhibido(r) ==
    \/ NombreProhibido(NombreDelPaso(r))
    \/ /\ r[1] \in {"type", "_crear_archivo_actual"}
       /\ \A i \in 1..Len(NombreDelPaso(r)) : NombreDelPaso(r)[i] # "."

RaizDeLaUnidad == unidades[1].raiz

\* C32: no rmdir, with any flags and any target (the unit's name, "..", "/", a
\* path that ends at the root), removes the unit's root directory: after the
\* command the root is still the unit's root directory, under the unit's name
\* and with no parent, no directory lists it as a subdirectory, it has the files
\* it had, and of its subdirectories at most the one that was removed is gone
C32_RmdirNoQuitaLaRaiz ==
    [][(Len(resultado') >= 3 /\ resultado'[1] = "rmdir") =>
          /\ unidades' = unidades
          /\ RaizDeLaUnidad \in DOMAIN carpetas'
          /\ carpetas'[RaizDeLaUnidad].padre = Nulo
          /\ carpetas'[RaizDeLaUnidad].nombre = unidades[1].nombre
          /\ \A c \in DOMAIN carpetas' :
                 RaizDeLaUnidad \notin Range(carpetas'[c].subcarpetas)
          /\ carpetas'[RaizDeLaUnidad].archivos_raiz = carpetas[RaizDeLaUnidad].archivos_raiz
          /\ Range(carpetas'[RaizDeLaUnidad].subcarpetas)
                 \subseteq Range(carpetas[RaizDeLaUnidad].subcarpetas)
          /\ Len(carpetas[RaizDeLaUnidad].subcarpetas)
                 - Len(carpetas'[RaizDeLaUnidad].subcarpetas) \in {0, 1}]_vars

\* rmdir C: /s has been given in the root, which holds a directory and a file,
\* and has found no directory of that name
C32_Witness ==
    /\ resultado = <<"rmdir", <<<<"C", ":">>, <<"/", "s">>>>, "Error: La carpeta no existe">>
    /\ directorio_actual = RaizDeLaUnidad
    /\ carpetas[RaizDeLaUnidad].subcarpetas # <<>>
    /\ carpetas[RaizDeLaUnidad].archivos_raiz # None

\* C36: after any sequence of cd, mkdir, type and rmdir commands the current
\* directory is still attached to the tree: it is the unit's root or is reached
\* from the root through subdirectory links (an rmdir given a path cannot detach
\* the current directory or one of its ancestors)
C36_DirectorioActualEnElArbol ==
    directorio_actual \in Descendientes(carpetas, RaizDeLaUnidad)

\* The command was given a target path: for dir an argument, for mkdir, type
\* and rmdir an argument with a separator or one that begins with the unit
ConRutaDestino(paso) ==
    /\ Len(paso) >= 3
    /\ paso[1] \in {"mkdir", "type", "dir", "rmdir"}
    /\ paso[2] # <<>>
    /\ \/ paso[1] = "dir" /\ paso[2][1] # <<>>
       \/ \E i \in 1..Len(paso[2][1]) : paso[2][1][i] \in {"/", "\\"}
       \/ /\ paso[1] = "rmdir"
          /\ Len(paso[2][1]) >= 2
          /\ paso[2][1][1] = "C"
          /\ paso[2][1][2] = ":"

\* C37: a mkdir, type, dir or rmdir command given a target path leaves the
\* current directory and the current path as they were before it, whether it
\* succeeded or failed
C37_LaSesionSeRestaura ==
    [][ConRutaDestino(resultado') =>
          /\ directorio_actual' = directorio_actual
          /\ ruta_actual' = ruta_actual]_vars

\* dir C:/a/b, given in the root, has listed the directory b of a
C37_Witness ==
    /\ Len(resultado) = 5
    /\ resultado[1] = "dir"
    /\ resultado[3] = "Directorio de"
    /\ resultado[4] = <<"C", ":", "/", "a", "/", "b">>
    /\ directorio_actual = RaizDeLaUnidad
    /\ ruta_actual = <<"C", ":">>

RECURSIVE RutaPorPadres(_, _)
\* The names from the unit's root down to a directory, found by walking its
\* parent links, joined by "/"
RutaPorPadres(cs, d) ==
    IF cs[d].padre = Nulo THEN cs[d].nombre
    ELSE RutaPorPadres(cs, cs[d].padre) \o <<"/">> \o cs[d].nombre

\* C38: after any sequence of cd commands the current path is, but for the case
\* of its letters, the unit-qualified path obtained by walking the parent links
\* from the current directory
C38_RutaActualPorPadres ==
    Lower(ruta_actual) = Lower(RutaPorPadres(carpetas, directorio_actual))

\* cd A/B has entered the directory b of a: the path holds the names as typed
C38_Witness ==
    /\ Len(resultado) >= 3
    /\ resultado[1] = "cd"
    /\ resultado[3] = "Directorio actual"
    /\ ruta_actual = <<"C", ":", "/", "A", "/", "B">>
    /\ RutaPorPadres(carpetas, directorio_actual) = <<"C", ":", "/", "a", "/", "b">>

-----------------------------------------------------------------------------
(* Claims about the units and the directories a restore leaves *)

\* A restore of a document that has units has just succeeded
RestauradoConUnidades ==
    /\ Len(resultado) = 3
    /\ resultado[1] = "cargar_ultimo_respaldo"
    /\ resultado[2] = "ok"
    /\ resultado[3] # "sin_unidades"

\* C33: in every store produced by restore each directory listed among the
\* subdirectories of a directory d has d as its parent, and each unit root has
\* no parent
C33_PadresCoherentes ==
    RestauradoConUnidades =>
        /\ \A u \in 1..Len(unidades) : carpetas[unidades[u].raiz].padre = Nulo
        /\ \A d \in DOMAIN carpetas :
               \A i \in 1..Len(carpetas[d].subcarpetas) :
                   /\ carpetas[d].subcarpetas[i] \in DOMAIN carpetas
                   /\ carpetas[carpetas[d].subcarpetas[i]].padre = d

\* A store with a directory inside a directory of a unit has been restored
C33_Witness ==
    /\ RestauradoConUnidades
    /\ \E d \in DOMAIN carpetas :
           /\ carpetas[d].padre # Nulo
           /\ carpetas[d].subcarpetas # <<>>

\* The units of the restored list that the document names
UnidadesNombradas ==
    {u \in 1..Len(unidades) :
        Lower(unidades[u].nombre) = Lower(NombreUnidad(
            IF resultado[3] \in {"unidad_desconocida", "unidad_desconocida_ruta_perdida"}
            THEN <<"Z", ":">> ELSE respaldo.unidad_actual))}

\* The current unit is the one the document names, or the first of the list
\* when the name matches none
NombradaOPrimera ==
    IF UnidadesNombradas = {} THEN unidad_actual = 1
    ELSE unidad_actual \in UnidadesNombradas

\* One unit of the restored list is current and the current directory is a
\* directory of its tree
UnidadYDirectorioActuales ==
    /\ unidad_actual \in 1..Len(unidades)
    /\ directorio_actual \in Descendientes(carpetas, unidades[unidad_actual].raiz)

-----------------------------------------------------------------------------
(* Claims about the shape of the B-tree *)

RECURSIVE NodosBajo(_)
\* A node and every node below it
NodosBajo(nodo) ==
    {nodo} \cup UNION {NodosBajo(nodo.hijos[i]) : i \in 1..Len(nodo.hijos)}

RECURSIVE ProfundidadesDeHojas(_, _)
\* The depths of the nodes without children at or below a node of depth p
ProfundidadesDeHojas(nodo, p) ==
    IF nodo.hijos = <<>> THEN {p}
    ELSE UNION {ProfundidadesDeHojas(nodo.hijos[i], p + 1) : i \in 1..Len(nodo.hijos)}

RECURSIVE ClavesEnOrden(_)
\* The keys at or below a node with one more child than keys, each child's keys
\* before the key that follows it
ClavesEnOrden(nodo) ==
    IF nodo.hijos = <<>> THEN nodo.claves
    ELSE Flatten([i \in 1..Len(nodo.claves) |->
                     ClavesEnOrden(nodo.hijos[i]) \o <<nodo.claves[i]>>])
         \o ClavesEnOrden(nodo.hijos[Len(nodo.hijos)])

\* C35: after any sequence of insertions, removals and renames the tree of
\* minimum degree t is well-formed: every node holds at most 2t-1 keys and as
\* many value lists as keys, every node but the root holds at least t-1 keys, a
\* leaf has no children and an internal node one more child than keys, all
\* leaves are at the same depth, and the keys in order never decrease
C35_ArbolBienFormado ==
    /\ \A nodo \in NodosBajo(indice_global) :
           /\ Len(nodo.claves) <= 2 * grado - 1
           /\ Len(nodo.valores) = Len(nodo.claves)
           /\ nodo.es_hoja => nodo.hijos = <<>>
           /\ ~nodo.es_hoja => Len(nodo.hijos) = Len(nodo.claves) + 1
           /\ nodo # indice_global => Len(nodo.claves) >= grado - 1
    /\ Cardinality(ProfundidadesDeHojas(indice_global, 0)) = 1
    /\ \A i \in 1..(Len(ClavesEnOrden(indice_global)) - 1) :
           ~StrLt(ClavesEnOrden(indice_global)[i + 1], ClavesEnOrden(indice_global)[i])

\* A rename has rebuilt a tree of three levels
C35_Witness ==
    /\ resultado = <<"renombrar_ruta">>
    /\ ~indice_global.es_hoja
    /\ ~indice_global.hijos[1].es_hoja

-----------------------------------------------------------------------------
(* Claims about the history stacks *)

RECURSIVE OrdenDeSalida(_)
\* What successive desapilar calls return until the stack is empty
OrdenDeSalida(pila) ==
    IF pila_esta_vacia(pila) THEN <<>>
    ELSE <<desapilar(pila)[1]>> \o OrdenDeSalida(desapilar(pila)[2])

\* C8: _deserializar_pila(_serializar_pila(stack)) pops in the order the
\* original pops, and the serialized list is most-recent-first.
C8_PilaIdaYVuelta ==
    (Len(resultado) = 2 /\ resultado[1] = "deserializar") =>
        /\ OrdenDeSalida(errores) = OrdenDeSalida(historial_operaciones)
        /\ resultado[2] = OrdenDeSalida(historial_operaciones)

\* C8's case: a stack of three different lines has made the round trip.
C8_Witness ==
    /\ Len(resultado) = 2
    /\ resultado[1] = "deserializar"
    /\ Len(resultado[2]) = 3
    /\ Cardinality(Range(resultado[2])) = 3


\* The line the log command registers for itself before it reads the history
LineaDelLog == IF log_operaciones THEN <<<<Ahora, "log">>>> ELSE <<>>

\* A step that reads the history: a snapshot's _serializar_pila or the log command
LecturaSerializar == Len(resultado') = 2 /\ resultado'[1] = "serializar"
LecturaLog == Len(resultado') = 4 /\ resultado'[1] = "log"

\* C39: reading a history stack does not change it: after _serializar_pila and
\* after the listing loop of the log command the stack holds the same elements
\* in the same LIFO order and has the same length as before the read (for the
\* log command: as when its own line had been registered)
C39_LeerNoCambiaLaPila ==
    [][/\ LecturaSerializar =>
            /\ historial_operaciones'.cabeza = historial_operaciones.cabeza
            /\ historial_operaciones'.longitud = historial_operaciones.longitud
            /\ resultado'[2] = historial_operaciones.cabeza
       /\ LecturaLog =>
            /\ historial_operaciones'.cabeza = LineaDelLog \o historial_operaciones.cabeza
            /\ historial_operaciones'.longitud
                   = Len(LineaDelLog) + historial_operaciones.longitud
            /\ resultado'[4] = Reversed(historial_operaciones'.cabeza)]_vars

\* A log command has listed a history of two different lines, which a snapshot
\* then read again
C39_Witness ==
    /\ Len(resultado) = 2
    /\ resultado[1] = "serializar"
    /\ Len(resultado[2]) = 2
    /\ resultado[2][1] = <<Ahora, "log">>
    /\ resultado[2][2] # resultado[2][1]
    /\ historial_operaciones.longitud = 2
    /\ historial_operaciones.cabeza = resultado[2]


\* A step that is one call of apilar or of desapilar on the history
PasoApilar == Len(resultado') = 2 /\ resultado'[1] = "apilar"
PasoDesapilar == Len(resultado') = 2 /\ resultado'[1] = "desapilar"

\* C40: over every sequence of apilar and desapilar calls longitud is the
\* number of elements reachable from cabeza and is never negative; apilar puts
\* its element in front of the others, desapilar returns the element in front,
\* which is the most recently pushed one not yet popped, and leaves the others;
\* desapilar on the empty stack returns None and leaves the stack empty with
\* longitud 0
C40_PilaCuentaYDevuelveElUltimo ==
    [][/\ historial_operaciones.longitud = Len(historial_operaciones.cabeza)
       /\ historial_operaciones'.longitud = Len(historial_operaciones'.cabeza)
       /\ historial_operaciones'.longitud >= 0
       /\ PasoApilar =>
            historial_operaciones'.cabeza
                = <<resultado'[2]>> \o historial_operaciones.cabeza
       /\ PasoDesapilar =>
            IF Len(historial_operaciones.cabeza) = 0
            THEN /\ resultado'[2] = None
                 /\ Len(historial_operaciones'.cabeza) = 0
                 /\ historial_operaciones'.longitud = 0
            ELSE /\ resultado'[2] = historial_operaciones.cabeza[1]
                 /\ historial_operaciones'.cabeza
                        = SubSeq(historial_operaciones.cabeza, 2,
                                 Len(historial_operaciones.cabeza))]_vars

\* Of three lines pushed the last one has been popped, and it is not one of
\* the two that stay
C40_Witness ==
    /\ Len(resultado) = 2
    /\ resultado[1] = "desapilar"
    /\ historial_operaciones.longitud = 2
    /\ Len(historial_operaciones.cabeza) = 2
    /\ resultado[2] \notin Range(historial_operaciones.cabeza)
    /\ historial_operaciones.cabeza[1] # historial_operaciones.cabeza[2]

====
